---- MODULE Spec2Model ----
(***************************************************************************)
(* A model of the gallery-app test suite: the Jest configuration           *)
(* (jest.config.js), the global setup (tests/setup.js) and the tests of    *)
(* tests/flaky-randomness.test.js, run in file order by the test runner.   *)
(*                                                                         *)
(* Numbers in [0, 1) (the values of Math.random) are fixed-point: the      *)
(* integer k stands for k / RandDen.  Every product and comparison the     *)
(* tests make on the scripted values gives the same result in IEEE         *)
(* doubles as in exact arithmetic (100 * 0.86 = 86, 0.05 + 0.25 = 0.3,     *)
(* 0.2 * 5 = 1, ...), so exact arithmetic on k is what the code computes.  *)
(***************************************************************************)
EXTENDS Integers, Sequences, FiniteSets, TLC

VARIABLES
    tz,          \* the time zone Date's local getters use
    pc,          \* the runner's position: [test, at]
    mem,         \* the local variables of the test being run
    mockRandom,  \* the state of Math.random: real, or a jest.spyOn mock
    prng,        \* the real pseudo-random generator behind Math.random
    fakeTimers,  \* jest's fake timers: installed or not, clock, pending timers
    outcome,     \* the results of the tests that have ended, in order
    scripted,    \* two runs of one test: the test and the stub both runs install
    runs,        \* two runs of one test: each run's position, locals, mock, generator
    env,         \* the environment variables jest.config.js reads
    config,      \* the configuration jest.config.js exports, once loaded
    scan,        \* the number of candidate files the runner has considered
    selected,    \* the test files the runner has selected to run
    loop         \* the real event loop: the clock and the pending real timers

runnerVars == <<tz, pc, mem, mockRandom, prng, fakeTimers, outcome>>

pairVars == <<scripted, runs>>

configVars == <<env, config, scan, selected>>

loopVars == <<loop>>

(***************************************************************************)
(* Bounds of the model.                                                    *)
(***************************************************************************)
\* decimal digits of a random value the model distinguishes
RandDigits == 3
\* number of evenly spaced seeds of the real generator
NumSeeds == 8

RandDen == 10 ^ RandDigits

\* the decimal n / 10^d as a fixed-point value
Dec(n, d) == n * (10 ^ (RandDigits - d))

(***************************************************************************)
(* The real Math.random: a deterministic generator whose seed and stride   *)
(* the environment chooses.  Each call returns x and advances x by stride. *)
(***************************************************************************)
PrngSeeds == {0, RandDen - 1} \cup {(k * RandDen) \div NumSeeds : k \in 1..(NumSeeds - 1)}

PrngStrides == {0, 1, RandDen \div 100, 7 * (RandDen \div 100) + 3}

PrngNext(g) == [g EXCEPT !.x = (g.x + g.stride) % RandDen]

(***************************************************************************)
(* jest.spyOn(Math, 'random'): mockReturnValueOnce queues values that are  *)
(* returned first, in order; mockReturnValue sets the value returned when  *)
(* the queue is empty; with neither, the original function is called.      *)
(***************************************************************************)
RealRandom == [spied |-> FALSE, once |-> <<>>, hasDefault |-> FALSE, dflt |-> 0, calls |-> 0]

SpyOnRandom(m) == [m EXCEPT !.spied = TRUE]

MockReturnValueOnceFirst(m, v) == [m EXCEPT !.once = <<v>> \o @]

MockReturnValueOnce(m, v) == [m EXCEPT !.once = Append(@, v)]

MockReturnValue(m, v) == [m EXCEPT !.hasDefault = TRUE, !.dflt = v]

RECURSIVE QueueAll(_, _)
QueueAll(m, seq) ==
    IF seq = <<>> THEN m ELSE QueueAll(MockReturnValueOnce(m, Head(seq)), Tail(seq))

UsesQueue(m) == m.spied /\ m.once # <<>>

UsesDefault(m) == m.spied /\ m.once = <<>> /\ m.hasDefault

\* the value one call of Math.random() returns
RandomValue(m, g) ==
    IF UsesQueue(m) THEN Head(m.once)
    ELSE IF UsesDefault(m) THEN m.dflt
    ELSE g.x

\* the mock after that call
MockAfterCall(m) ==
    IF ~m.spied THEN m
    ELSE IF m.once # <<>> THEN [m EXCEPT !.once = Tail(@), !.calls = @ + 1]
    ELSE [m EXCEPT !.calls = @ + 1]

\* the real generator after that call
PrngAfterCall(m, g) == IF UsesQueue(m) \/ UsesDefault(m) THEN g ELSE PrngNext(g)

(***************************************************************************)
(* TEST 11: score generation.                                              *)
(***************************************************************************)
baseScore == 100

mockGenerateScore(r) == (baseScore * r) \div RandDen

ScoreScript == <<Dec(86, 2), Dec(12, 2), Dec(42, 2)>>

ScoreCalls == 3

(***************************************************************************)
(* TEST 13: the Fisher-Yates shuffle.  Arrays live in a heap (a sequence   *)
(* of arrays, a reference being an index), so that the copy the shuffle    *)
(* makes and the array it was given are distinct objects.  Indices are the *)
(* code's, from 0.                                                         *)
(***************************************************************************)
originalArray == <<1, 2, 3, 4, 5>>

\* const shuffled = [...array]; let i = shuffled.length - 1
mockShuffleAlias(st) ==
    [st EXCEPT !.shuffled = st.array,
               !.i = Len(st.heap[st.array]) - 1]

mockShuffleCopy(st) ==
    [st EXCEPT !.heap = Append(@, @[st.array]),
               !.shuffled = Len(st.heap) + 1,
               !.i = Len(st.heap[st.array]) - 1]

\* [a[i], a[j]] = [a[j], a[i]]
SwapBroken(a, i, j) == [[a EXCEPT ![i + 1] = a[j + 1]] EXCEPT ![j + 1] = a[j + 1]]

Swap(a, i, j) == [a EXCEPT ![i + 1] = a[j + 1], ![j + 1] = a[i + 1]]

\* const j = Math.floor(Math.random() * (i + 1))
ShuffleIndex(r, i) == (r * (i + 1)) \div RandDen

\* one iteration of the loop body, then i--
mockShuffleStep(st, r) ==
    [st EXCEPT !.heap[st.shuffled] = Swap(@, st.i, ShuffleIndex(r, st.i)),
               !.i = @ - 1]

\* the loop condition i > 0 has become false
mockShuffleDone(st) == st.i <= 0

(***************************************************************************)
(* TEST 14: a predicate true with probability 0.7.                         *)
(***************************************************************************)
iterations == 10

mockProbabilityAction(r) == r < Dec(7, 1)

ProbabilityScript ==
    <<Dec(1, 1), Dec(2, 1), Dec(3, 1), Dec(8, 1), Dec(9, 1),
      Dec(15, 2), Dec(65, 2), Dec(72, 2), Dec(5, 2), Dec(85, 2)>>

(***************************************************************************)
(* TEST 16: random selection from a list.                                  *)
(***************************************************************************)
items == <<"apple", "banana", "cherry", "date", "elderberry">>

mockRandomSelect(array, r) == array[((r * Len(array)) \div RandDen) + 1]

SelectScript == <<Dec(2, 1), Dec(4, 1), Dec(6, 1), Dec(8, 1), Dec(0, 1)>>

SelectCalls == 5

(***************************************************************************)
(* TEST 18: weighted selection.                                            *)
(***************************************************************************)
weights == [common |-> Dec(7, 1), rare |-> Dec(25, 2), legendary |-> Dec(5, 2)]

weightedIterations == 20

mockWeightedSelectLoose(r) ==
    IF r <= weights.legendary THEN "legendary"
    ELSE IF r <= weights.legendary + weights.rare THEN "rare"
    ELSE "common"

mockWeightedSelect(r) ==
    IF r < weights.legendary THEN "legendary"
    ELSE IF r < weights.legendary + weights.rare THEN "rare"
    ELSE "common"

WeightedScript ==
    <<Dec(9, 1), Dec(8, 1), Dec(6, 1), Dec(3, 1), Dec(2, 1),
      Dec(1, 2), Dec(75, 2), Dec(26, 2), Dec(55, 2), Dec(4, 1),
      Dec(15, 2), Dec(5, 2), Dec(95, 2), Dec(7, 1), Dec(85, 2),
      Dec(32, 2), Dec(22, 2), Dec(12, 2), Dec(88, 2), Dec(62, 2)>>

(***************************************************************************)
(* The five tests whose random source is a scripted stub share one shape:  *)
(* install the spy, call Math.random a fixed number of times folding each  *)
(* value into the test's locals, assert, restore.                          *)
(***************************************************************************)
ScriptedTests == {"score", "shuffle", "probability", "select", "weighted"}

\* the stub each test installs: the queued values and the default value
CodeStub(t) ==
    CASE t = "score" -> [once |-> ScoreScript, hasDefault |-> FALSE, dflt |-> 0]
      [] t = "shuffle" -> [once |-> <<>>, hasDefault |-> TRUE, dflt |-> Dec(0, 1)]
      [] t = "probability" -> [once |-> ProbabilityScript, hasDefault |-> FALSE, dflt |-> 0]
      [] t = "select" -> [once |-> SelectScript, hasDefault |-> FALSE, dflt |-> 0]
      [] t = "weighted" -> [once |-> WeightedScript, hasDefault |-> FALSE, dflt |-> 0]

InstallStub(m, stub) ==
    LET spy == QueueAll(SpyOnRandom(m), stub.once)
    IN  IF stub.hasDefault THEN MockReturnValue(spy, stub.dflt) ELSE spy

\* the locals of each test as its body starts
InitLocals(t) ==
    CASE t = "score" -> [scores |-> <<>>]
      [] t = "shuffle" -> [heap |-> <<originalArray>>, array |-> 1, shuffled |-> 0, i |-> 0]
      [] t = "probability" -> [successCount |-> 0, failureCount |-> 0, i |-> 0]
      [] t = "select" -> [selections |-> <<>>]
      [] t = "weighted" -> [results |-> [common |-> 0, rare |-> 0, legendary |-> 0], i |-> 0]
      [] t = "time" -> [currentHour |-> 0, currentMinute |-> 0, currentSecond |-> 0]
      [] t = "ids" -> [generatedIds |-> {}, i |-> 0]
      [] t = "delay" -> [operationCompleted |-> FALSE, startTime |-> 0, tickTo |-> 0,
                         elapsedTime |-> 0, doneCalled |-> FALSE]
      [] OTHER -> [none |-> TRUE]

\* one call of the test's function on the random value r
Fold(t, st, r) ==
    CASE t = "score" -> [st EXCEPT !.scores = Append(@, mockGenerateScore(r))]
      [] t = "shuffle" -> mockShuffleStep(st, r)
      [] t = "probability" ->
            IF mockProbabilityAction(r)
            THEN [st EXCEPT !.successCount = @ + 1, !.i = @ + 1]
            ELSE [st EXCEPT !.failureCount = @ + 1, !.i = @ + 1]
      [] t = "select" -> [st EXCEPT !.selections = Append(@, mockRandomSelect(items, r))]
      [] t = "weighted" -> [st EXCEPT !.results[mockWeightedSelect(r)] = @ + 1, !.i = @ + 1]

\* the test makes no further call
FinishedLate(t, st) ==
    CASE t = "score" -> Len(st.scores) >= ScoreCalls
      [] t = "shuffle" -> mockShuffleDone(st)
      [] t = "probability" -> st.i >= iterations + 1
      [] t = "select" -> Len(st.selections) >= SelectCalls
      [] t = "weighted" -> st.i >= weightedIterations

Finished(t, st) ==
    CASE t = "score" -> Len(st.scores) >= ScoreCalls
      [] t = "shuffle" -> mockShuffleDone(st)
      [] t = "probability" -> st.i >= iterations
      [] t = "select" -> Len(st.selections) >= SelectCalls
      [] t = "weighted" -> st.i >= weightedIterations

Range(f) == {f[x] : x \in DOMAIN f}

RECURSIVE Insert(_, _)
Insert(sorted, v) ==
    IF sorted = <<>> THEN <<v>>
    ELSE IF v <= Head(sorted) THEN <<v>> \o sorted
    ELSE <<Head(sorted)>> \o Insert(Tail(sorted), v)

\* Array.prototype.sort() on an array of the digits 0..9, for which the default
\* (string) order is the numeric order
RECURSIVE Sort(_)
Sort(a) == IF a = <<>> THEN <<>> ELSE Insert(Sort(Tail(a)), Head(a))

RECURSIVE CountBelow(_, _)
CountBelow(seq, bound) ==
    IF seq = <<>> THEN 0
    ELSE (IF Head(seq) < bound THEN 1 ELSE 0) + CountBelow(Tail(seq), bound)

\* the test's expect(...) calls all pass
Expected(t, st) ==
    CASE t = "score" -> st.scores = <<86, 12, 42>>
      [] t = "shuffle" ->
            /\ st.heap[st.shuffled] = <<2, 3, 4, 5, 1>>
            /\ Sort(st.heap[st.shuffled]) = Sort(originalArray)
            /\ Len(st.heap[st.shuffled]) = Len(originalArray)
      [] t = "probability" ->
            /\ st.successCount = CountBelow(ProbabilityScript, Dec(7, 1))
            /\ st.failureCount = iterations - st.successCount
            /\ st.successCount + st.failureCount = iterations
      [] t = "select" ->
            /\ st.selections = <<"banana", "cherry", "date", "elderberry", "apple">>
            /\ Cardinality(Range(st.selections)) = 5
      [] t = "weighted" -> st.results = [common |-> 13, rare |-> 6, legendary |-> 1]

(***************************************************************************)
(* TEST 12: the clock.  An instant is the milliseconds since midnight UTC  *)
(* of 2021-01-01; the local getters shift it by the zone's offset on that  *)
(* day.                                                                    *)
(***************************************************************************)
MsPerDay == 24 * 3600000

\* the zone tests/setup.js assigns to process.env.TZ, and UTC: the host's zone,
\* left in force where the assignment does not reach the Date implementation
TimeZones == {"America/New_York", "UTC"}

UtcOffsetMinutes(zone) == IF zone = "America/New_York" THEN 0 - 300 ELSE 0

LocalMs(instant, zone) == (instant + UtcOffsetMinutes(zone) * 60000) % MsPerDay

getHours(instant, zone) == LocalMs(instant, zone) \div 3600000

getMinutes(instant, zone) == (LocalMs(instant, zone) \div 60000) % 60

getSeconds(instant, zone) == (LocalMs(instant, zone) \div 1000) % 60

\* new Date('2021-01-01T10:00:10Z') and new Date('2021-01-01T10:00:00Z')
SystemTime(t) == IF t = "time" THEN 10 * 3600000 + 10 * 1000 ELSE 10 * 3600000

mockIsFeatureEnabled(st) ==
    st.currentHour >= 9 /\ st.currentHour < 17 /\ st.currentMinute % 2 = 0

mockGetTimeBasedMessage(st) ==
    IF st.currentSecond < 30 THEN "First half of minute" ELSE "Second half of minute"

(***************************************************************************)
(* TEST 15: identifiers.  toString() gives the decimal digits.             *)
(***************************************************************************)
idRange == 100

idCount == 150

Digits == <<"0", "1", "2", "3", "4", "5", "6", "7", "8", "9">>

RECURSIVE toString(_)
toString(n) ==
    IF n < 10 THEN <<Digits[n + 1]>>
    ELSE toString(n \div 10) \o <<Digits[(n % 10) + 1]>>

\* /^\d+$/.test(id)
IsDigits(id) == id # <<>> /\ \A k \in DOMAIN id : id[k] \in Range(Digits)

mockGenerateIdWide(r) == toString((r * (10 * idRange)) \div RandDen)

mockGenerateId(r) == toString((r * idRange) \div RandDen)

(***************************************************************************)
(* jest's fake timers (TEST 12, TEST 17).  A pending timer is              *)
(* [id, callAt, cb]; setTimeout truncates its delay to whole milliseconds; *)
(* advanceTimersByTime fires the pending timers due by the target time,    *)
(* earliest first and in creation order among equals, moving the clock to  *)
(* each timer's time, and leaves the clock at the target.                  *)
(***************************************************************************)
RealTimers == [enabled |-> FALSE, now |-> 0, timers |-> {}, nextId |-> 1]

\* the wall clock as the fake clock is installed (overwritten by setSystemTime)
WallClockSamples == {0, 12 * 3600000}

SetTimeout(ft, cb, delay) ==
    [ft EXCEPT !.timers = @ \cup {[id |-> ft.nextId, callAt |-> ft.now + delay, cb |-> cb]},
               !.nextId = @ + 1]

DueTimers(ft, tickTo) == {t \in ft.timers : t.callAt <= tickTo}

FirstTimer(ft, tickTo) ==
    CHOOSE t \in DueTimers(ft, tickTo) :
        \A u \in DueTimers(ft, tickTo) :
            t.callAt < u.callAt \/ (t.callAt = u.callAt /\ t.id <= u.id)

\* const delay = Math.random() * 200 + 100, as setTimeout takes it
RandomDelayLong(r) == (r * 400) \div RandDen + 100

RandomDelay(r) == (r * 200) \div RandDen + 100

checkDelay == 300

(***************************************************************************)
(* The runner: the tests of flaky-randomness.test.js in file order.  A     *)
(* failed expect throws: the rest of the test body is skipped.             *)
(***************************************************************************)
TestOrder == <<"score", "time", "shuffle", "probability", "ids", "select", "delay", "weighted">>

Test == IF pc.test \in DOMAIN TestOrder THEN TestOrder[pc.test] ELSE "none"

At(t, a) == Test = t /\ pc.at = a

NoLocals == [none |-> TRUE]

EndTest(passed) ==
    /\ outcome' = Append(outcome, [test |-> Test, passed |-> passed])
    /\ pc' = [test |-> pc.test + 1, at |-> "hooks"]
    /\ mem' = NoLocals

\* jest.config.js not yet loaded
Unloaded == [loaded |-> FALSE, testPathIgnorePatterns |-> <<>>]

\* the variables of the two-run and of the configuration specifications, at rest
PairIdle == scripted = [test |-> "none"] /\ runs = <<>>

ConfigIdle == env = [CI |-> "", GITHUB_ACTIONS |-> ""] /\ config = Unloaded /\ scan = 0 /\ selected = {}

\* the event loop with no real timer pending; closure holds the variables of a
\* finished test that a callback still pending reads (the batches of processLargeData)
NoTimers ==
    [now |-> 0, timers |-> {}, nextId |-> 1,
     closure |-> [processedItems |-> 0, batchSize |-> 0]]

LoopIdle == loop = NoTimers

Init ==
    /\ PairIdle
    /\ ConfigIdle
    /\ LoopIdle
    /\ tz \in TimeZones
    /\ pc = [test |-> 1, at |-> "hooks"]
    /\ mem = NoLocals
    /\ mockRandom = RealRandom
    /\ prng \in [x : PrngSeeds, stride : PrngStrides]
    /\ fakeTimers = RealTimers
    /\ outcome = <<>>

\* what the runner and the beforeEach hooks do to Math.random before a test:
\* restoreMocks: true restores every spy
RestoreMocks(m) == RealRandom

\* before each test: the configuration's clearMocks / resetMocks / restoreMocks and
\* the beforeEach hooks (which reset the DOM and clear the mocks' call records)
BeforeEach ==
    /\ pc.at = "hooks"
    /\ pc.test \in DOMAIN TestOrder
    /\ mockRandom' = RestoreMocks(mockRandom)
    /\ mem' = InitLocals(Test)
    /\ pc' = [pc EXCEPT !.at = "start"]
    /\ UNCHANGED <<tz, prng, fakeTimers, outcome>>
    /\ UNCHANGED <<pairVars, configVars, loopVars>>

\* jest.spyOn(Math, 'random').mockReturnValueOnce(...)... / .mockReturnValue(0)
SpyInstall ==
    /\ Test \in ScriptedTests
    /\ pc.at = "start"
    /\ mockRandom' = InstallStub(mockRandom, CodeStub(Test))
    /\ pc' = [pc EXCEPT !.at = IF Test = "shuffle" THEN "call" ELSE "run"]
    /\ UNCHANGED <<tz, mem, prng, fakeTimers, outcome>>
    /\ UNCHANGED <<pairVars, configVars, loopVars>>

\* mockShuffle(originalArray): the copy, and the loop's first test
ShuffleCall ==
    /\ At("shuffle", "call")
    /\ mem' = mockShuffleCopy(mem)
    /\ pc' = [pc EXCEPT !.at = IF mockShuffleDone(mem') THEN "expect" ELSE "run"]
    /\ UNCHANGED <<tz, mockRandom, prng, fakeTimers, outcome>>
    /\ UNCHANGED <<pairVars, configVars, loopVars>>

\* one call of the test's function: one call of Math.random
RandomStep ==
    /\ Test \in ScriptedTests
    /\ pc.at = "run"
    /\ mem' = Fold(Test, mem, RandomValue(mockRandom, prng))
    /\ mockRandom' = MockAfterCall(mockRandom)
    /\ prng' = PrngAfterCall(mockRandom, prng)
    /\ pc' = [pc EXCEPT !.at = IF Finished(Test, mem') THEN "expect" ELSE "run"]
    /\ UNCHANGED <<tz, fakeTimers, outcome>>
    /\ UNCHANGED <<pairVars, configVars, loopVars>>

\* the test's expect(...) calls
Expect ==
    /\ Test \in ScriptedTests
    /\ pc.at = "expect"
    /\ IF Expected(Test, mem)
       THEN pc' = [pc EXCEPT !.at = "restore"] /\ UNCHANGED <<mem, outcome>>
       ELSE EndTest(FALSE)
    /\ UNCHANGED <<tz, mockRandom, prng, fakeTimers>>
    /\ UNCHANGED <<pairVars, configVars, loopVars>>

\* randSpy.mockRestore(), the last statement of the test
Restore ==
    /\ Test \in ScriptedTests
    /\ pc.at = "restore"
    /\ mockRandom' = RealRandom
    /\ EndTest(TRUE)
    /\ UNCHANGED <<tz, prng, fakeTimers>>
    /\ UNCHANGED <<pairVars, configVars, loopVars>>

\* jest.useFakeTimers()
UseFakeTimers ==
    /\ Test \in {"time", "delay"}
    /\ pc.at = "start"
    /\ \E w \in WallClockSamples :
          fakeTimers' = [enabled |-> TRUE, now |-> w, timers |-> {}, nextId |-> 1]
    /\ pc' = [pc EXCEPT !.at = "setSystemTime"]
    /\ UNCHANGED <<tz, mem, mockRandom, prng, outcome>>
    /\ UNCHANGED <<pairVars, configVars, loopVars>>

\* jest.setSystemTime(new Date(...))
SetSystemTime ==
    /\ Test \in {"time", "delay"}
    /\ pc.at = "setSystemTime"
    /\ fakeTimers' = [fakeTimers EXCEPT !.now = SystemTime(Test)]
    /\ pc' = [pc EXCEPT !.at = "body"]
    /\ UNCHANGED <<tz, mem, mockRandom, prng, outcome>>
    /\ UNCHANGED <<pairVars, configVars, loopVars>>

\* const currentTime = new Date(); getHours(), getMinutes(), getSeconds()
T12_ReadClock ==
    /\ At("time", "body")
    /\ mem' = [currentHour |-> getHours(fakeTimers.now, tz),
               currentMinute |-> getMinutes(fakeTimers.now, tz),
               currentSecond |-> getSeconds(fakeTimers.now, tz)]
    /\ pc' = [pc EXCEPT !.at = "expect"]
    /\ UNCHANGED <<tz, mockRandom, prng, fakeTimers, outcome>>
    /\ UNCHANGED <<pairVars, configVars, loopVars>>

T12_Expect ==
    /\ At("time", "expect")
    /\ IF /\ mockIsFeatureEnabled(mem) = TRUE
          /\ mockGetTimeBasedMessage(mem) = "First half of minute"
          /\ mem.currentMinute = 0
       THEN pc' = [pc EXCEPT !.at = "useRealTimers"] /\ UNCHANGED <<mem, outcome>>
       ELSE EndTest(FALSE)
    /\ UNCHANGED <<tz, mockRandom, prng, fakeTimers>>
    /\ UNCHANGED <<pairVars, configVars, loopVars>>

\* jest.useRealTimers(), the last statement of the test
T12_UseRealTimers ==
    /\ At("time", "useRealTimers")
    /\ fakeTimers' = RealTimers
    /\ EndTest(TRUE)
    /\ UNCHANGED <<tz, mockRandom, prng>>
    /\ UNCHANGED <<pairVars, configVars, loopVars>>

\* one iteration of the loop: generatedIds.add(mockGenerateId())
T15_Generate ==
    /\ Test = "ids"
    /\ pc.at \in {"start", "run"}
    /\ mem' = [mem EXCEPT !.generatedIds = @ \cup {mockGenerateId(RandomValue(mockRandom, prng))},
                          !.i = @ + 1]
    /\ mockRandom' = MockAfterCall(mockRandom)
    /\ prng' = PrngAfterCall(mockRandom, prng)
    /\ pc' = [pc EXCEPT !.at = IF mem'.i < idCount THEN "run" ELSE "expect"]
    /\ UNCHANGED <<tz, fakeTimers, outcome>>
    /\ UNCHANGED <<pairVars, configVars, loopVars>>

T15_Expect ==
    /\ At("ids", "expect")
    /\ EndTest(/\ Cardinality(mem.generatedIds) < 150
               /\ Cardinality(mem.generatedIds) <= 100
               /\ \A id \in mem.generatedIds : IsDigits(id))
    /\ UNCHANGED <<tz, mockRandom, prng, fakeTimers>>
    /\ UNCHANGED <<pairVars, configVars, loopVars>>

\* const startTime = Date.now()
T17_Start ==
    /\ At("delay", "body")
    /\ mem' = [mem EXCEPT !.startTime = fakeTimers.now]
    /\ pc' = [pc EXCEPT !.at = "operation"]
    /\ UNCHANGED <<tz, mockRandom, prng, fakeTimers, outcome>>
    /\ UNCHANGED <<pairVars, configVars, loopVars>>

\* mockRandomDelayOperation(): setTimeout(() => { operationCompleted = true }, delay)
T17_Operation ==
    /\ At("delay", "operation")
    /\ fakeTimers' = SetTimeout(fakeTimers, "operation", RandomDelay(RandomValue(mockRandom, prng)))
    /\ mockRandom' = MockAfterCall(mockRandom)
    /\ prng' = PrngAfterCall(mockRandom, prng)
    /\ pc' = [pc EXCEPT !.at = "scheduleCheck"]
    /\ UNCHANGED <<tz, mem, outcome>>
    /\ UNCHANGED <<pairVars, configVars, loopVars>>

\* setTimeout(() => { ...expect...; done() }, 300)
T17_ScheduleCheck ==
    /\ At("delay", "scheduleCheck")
    /\ fakeTimers' = SetTimeout(fakeTimers, "check", checkDelay)
    /\ pc' = [pc EXCEPT !.at = "advance"]
    /\ UNCHANGED <<tz, mem, mockRandom, prng, outcome>>
    /\ UNCHANGED <<pairVars, configVars, loopVars>>

\* jest.advanceTimersByTime(300): the target time
T17_Advance ==
    /\ At("delay", "advance")
    /\ mem' = [mem EXCEPT !.tickTo = fakeTimers.now + 300]
    /\ pc' = [pc EXCEPT !.at = "ticking"]
    /\ UNCHANGED <<tz, mockRandom, prng, fakeTimers, outcome>>
    /\ UNCHANGED <<pairVars, configVars, loopVars>>

\* advanceTimersByTime fires the next due timer; the operation's callback runs
\* whole, the check's callback is entered
FireTimer ==
    /\ At("delay", "ticking")
    /\ fakeTimers.enabled
    /\ DueTimers(fakeTimers, mem.tickTo) # {}
    /\ LET t == FirstTimer(fakeTimers, mem.tickTo)
       IN  /\ fakeTimers' = [fakeTimers EXCEPT !.now = t.callAt, !.timers = @ \ {t}]
           /\ IF t.cb = "operation"
              THEN mem' = [mem EXCEPT !.operationCompleted = TRUE] /\ UNCHANGED pc
              ELSE mem' = [mem EXCEPT !.elapsedTime = t.callAt - mem.startTime]
                   /\ pc' = [pc EXCEPT !.at = "check"]
    /\ UNCHANGED <<tz, mockRandom, prng, outcome>>
    /\ UNCHANGED <<pairVars, configVars, loopVars>>

\* the check's callback: the two expects, then jest.useRealTimers() and done();
\* a failed expect throws out of the callback and out of advanceTimersByTime
T17_Check ==
    /\ At("delay", "check")
    /\ IF mem.operationCompleted = TRUE /\ mem.elapsedTime >= 100
       THEN /\ fakeTimers' = RealTimers
            /\ mem' = [mem EXCEPT !.doneCalled = TRUE]
            /\ pc' = [pc EXCEPT !.at = "ticking"]
            /\ UNCHANGED outcome
       ELSE EndTest(FALSE) /\ UNCHANGED fakeTimers
    /\ UNCHANGED <<tz, mockRandom, prng>>
    /\ UNCHANGED <<pairVars, configVars, loopVars>>

\* advanceTimersByTime returns: no timer is due; the test ends, passed once done()
\* has been called
T17_Finish ==
    /\ At("delay", "ticking")
    /\ ~fakeTimers.enabled \/ DueTimers(fakeTimers, mem.tickTo) = {}
    /\ fakeTimers' = IF fakeTimers.enabled
                     THEN [fakeTimers EXCEPT !.now = mem.tickTo]
                     ELSE fakeTimers
    /\ EndTest(mem.doneCalled)
    /\ UNCHANGED <<tz, mockRandom, prng>>
    /\ UNCHANGED <<pairVars, configVars, loopVars>>

Next ==
    \/ BeforeEach
    \/ SpyInstall
    \/ ShuffleCall
    \/ RandomStep
    \/ Expect
    \/ Restore
    \/ UseFakeTimers
    \/ SetSystemTime
    \/ T12_ReadClock
    \/ T12_Expect
    \/ T12_UseRealTimers
    \/ T15_Generate
    \/ T15_Expect
    \/ T17_Start
    \/ T17_Operation
    \/ T17_ScheduleCheck
    \/ T17_Advance
    \/ FireTimer
    \/ T17_Check
    \/ T17_Finish

vars == <<runnerVars, pairVars, configVars, loopVars>>

Spec == Init /\ [][Next]_vars

(***************************************************************************)
(* Properties of the run of flaky-randomness.test.js (Spec).               *)
(***************************************************************************)

\* C1: with Math.random stubbed with 0.86, 0.12, 0.42, the calls of the score
\* generator consume the values in that order, one per call, and return 86, 12, 42:
\* after k calls the scores are the first k of <<86, 12, 42>> and the stub holds the
\* values after the k-th.
C1_ScoresInOrder ==
    (Test = "score" /\ pc.at \in {"run", "expect", "restore"}) =>
        LET k == Len(mem.scores)
        IN  /\ k <= ScoreCalls
            /\ mem.scores = SubSeq(<<86, 12, 42>>, 1, k)
            /\ mockRandom.calls = k
            /\ mockRandom.once = SubSeq(ScoreScript, k + 1, Len(ScoreScript))
            /\ (pc.at # "run" => k = ScoreCalls)

C1_Witness == At("score", "expect") /\ mem.scores = <<86, 12, 42>> /\ mockRandom.calls = 3

\* C2: the shuffle of [1,2,3,4,5] with Math.random stubbed to the constant 0 returns
\* exactly [2,3,4,5,1].
C2_ShuffleWithZero ==
    At("shuffle", "expect") => mem.heap[mem.shuffled] = <<2, 3, 4, 5, 1>>

C2_Witness ==
    /\ At("shuffle", "expect")
    /\ mockRandom.calls = Len(originalArray) - 1
    /\ mem.heap[mem.array] = originalArray

C4_IdSetBounded ==
    (Test = "ids" /\ pc.at # "hooks") =>
        /\ mem.generatedIds \subseteq {toString(n) : n \in 0..99}
        /\ Cardinality(mem.generatedIds) <= 100
        /\ Cardinality(mem.generatedIds) <= mem.i
        /\ (pc.at = "expect" => mem.i = 150 /\ Cardinality(mem.generatedIds) < 150)

C4_Witness ==
    At("ids", "expect") /\ mem.i = 150 /\ Cardinality(mem.generatedIds) = 100

\* C7: after a test that substituted Math.random or the clock has ended, passed or
\* failed, the next test starts with the real Math.random and the real timers.
C7_SubstitutionsReverted ==
    (pc.at = "start" /\ outcome # <<>>) => (mockRandom = RealRandom /\ ~fakeTimers.enabled)

\* C9: with the clock frozen at 2021-01-01T10:00:10Z and the zone America/New_York
\* the feature toggle reports enabled, the message is 'First half of minute' and the
\* local minute is 0.
C9_EnabledInNewYork ==
    (At("time", "expect") /\ tz = "America/New_York") =>
        /\ mockIsFeatureEnabled(mem) = TRUE
        /\ mockGetTimeBasedMessage(mem) = "First half of minute"
        /\ mem.currentMinute = 0

(***************************************************************************)
(* TEST 17 alone, for every value the real Math.random can return: the     *)
(* run from the state in which the runner reaches the test.                *)
(***************************************************************************)
IndexOf(t) == CHOOSE k \in DOMAIN TestOrder : TestOrder[k] = t

\* the results of the tests before TEST 17, and the timers they leave
OutcomeBefore(t, zone) ==
    [k \in 1..(IndexOf(t) - 1) |->
        [test |-> TestOrder[k], passed |-> (TestOrder[k] = "time" => zone = "UTC")]]

TimersLeftBy(zone) ==
    IF zone = "UTC" THEN RealTimers
    ELSE [enabled |-> TRUE, now |-> SystemTime("time"), timers |-> {}, nextId |-> 1]

InitDelay ==
    /\ PairIdle
    /\ ConfigIdle
    /\ LoopIdle
    /\ tz \in TimeZones
    /\ pc = [test |-> IndexOf("delay"), at |-> "hooks"]
    /\ mem = NoLocals
    /\ mockRandom = RealRandom
    /\ prng \in [x : 0..(RandDen - 1), stride : {1}]
    /\ fakeTimers = TimersLeftBy(tz)
    /\ outcome = OutcomeBefore("delay", tz)

NextDelay ==
    \/ BeforeEach /\ Test = "delay"
    \/ UseFakeTimers
    \/ SetSystemTime
    \/ T17_Start
    \/ T17_Operation
    \/ T17_ScheduleCheck
    \/ T17_Advance
    \/ FireTimer
    \/ T17_Check
    \/ T17_Finish

SpecDelay == InitDelay /\ [][NextDelay]_vars

\* the runner reaches TEST 17 only in states InitDelay allows
DelayStartCovered ==
    (pc = [test |-> IndexOf("delay"), at |-> "hooks"]) =>
        /\ mem = NoLocals
        /\ mockRandom = RealRandom
        /\ fakeTimers = TimersLeftBy(tz)
        /\ outcome = OutcomeBefore("delay", tz)

\* C5: for every delay in [100, 300) ms the operation's timer is due before the
\* check's timer at 300 ms, so when the check's callback runs operationCompleted is
\* true and the elapsed virtual time is at least 100 ms.
C5_OperationBeforeCheck ==
    /\ At("delay", "advance") =>
          \A t \in fakeTimers.timers :
              t.cb = "operation" =>
                  /\ t.callAt - mem.startTime \in 100..299
                  /\ \A u \in fakeTimers.timers : u.cb = "check" => t.callAt < u.callAt
    /\ At("delay", "check") => (mem.operationCompleted = TRUE /\ mem.elapsedTime >= 100)

C5_Witness ==
    At("delay", "check") /\ mem.operationCompleted = TRUE /\ mem.elapsedTime = 300

(***************************************************************************)
(* mockShuffle on every array of a bounded set, with every sequence of     *)
(* random values of a bounded set (SpecShuffle).                           *)
(***************************************************************************)
\* the longest array, the largest element and the number of random values tried
MaxLen == 4

MaxElem == 3

NumSamples == 5

RECURSIVE Arrays(_)
Arrays(n) ==
    IF n = 0 THEN {<<>>}
    ELSE Arrays(n - 1) \cup {Append(a, v) : a \in {b \in Arrays(n - 1) : Len(b) = n - 1}, v \in 1..MaxElem}

RandomSamples == {RandDen - 1} \cup {(k * RandDen) \div NumSamples : k \in 0..(NumSamples - 1)}

RunnerIdle ==
    /\ tz = "UTC"
    /\ pc = [test |-> 0, at |-> "idle"]
    /\ mem = NoLocals
    /\ mockRandom = RealRandom
    /\ prng = [x |-> 0, stride |-> 0]
    /\ fakeTimers = RealTimers
    /\ outcome = <<>>

InitShuffle ==
    /\ PairIdle
    /\ ConfigIdle
    /\ LoopIdle
    /\ tz = "UTC"
    /\ pc = [test |-> IndexOf("shuffle"), at |-> "call"]
    /\ \E a \in Arrays(MaxLen) : mem = [heap |-> <<a>>, array |-> 1, shuffled |-> 0, i |-> 0]
    /\ mockRandom = RealRandom
    /\ prng = [x |-> 0, stride |-> 0]
    /\ fakeTimers = RealTimers
    /\ outcome = <<>>

\* one iteration of mockShuffle's loop, Math.random returning any value
ShuffleAnyStep ==
    /\ At("shuffle", "run")
    /\ \E r \in RandomSamples : mem' = mockShuffleStep(mem, r)
    /\ pc' = [pc EXCEPT !.at = IF mockShuffleDone(mem') THEN "expect" ELSE "run"]
    /\ UNCHANGED <<tz, mockRandom, prng, fakeTimers, outcome>>
    /\ UNCHANGED <<pairVars, configVars, loopVars>>

NextShuffle ==
    \/ ShuffleCall
    \/ ShuffleAnyStep

SpecShuffle == InitShuffle /\ [][NextShuffle]_vars

RECURSIVE Count(_, _)
Count(a, v) ==
    IF a = <<>> THEN 0 ELSE (IF Head(a) = v THEN 1 ELSE 0) + Count(Tail(a), v)

SameElements(a, b) == \A v \in Range(a) \cup Range(b) : Count(a, v) = Count(b, v)

\* C10: for every input array and every sequence of random values the shuffle's
\* array is, after the copy and after every iteration, of the input's length and
\* a permutation of the input, and no step changes the input array.
C10_ShuffleIsPermutation ==
    /\ [](pc.at \in {"run", "expect"} =>
            /\ mem.shuffled # mem.array
            /\ Len(mem.heap[mem.shuffled]) = Len(mem.heap[mem.array])
            /\ SameElements(mem.heap[mem.shuffled], mem.heap[mem.array]))
    /\ [][mem'.heap[mem'.array] = mem.heap[mem.array]]_vars

C10_Witness ==
    /\ At("shuffle", "expect")
    /\ Len(mem.heap[mem.array]) = MaxLen
    /\ mem.heap[mem.shuffled] # mem.heap[mem.array]
    /\ mem.heap[mem.array][1] = mem.heap[mem.array][2]

(***************************************************************************)
(* Two runs of one scripted test, each with its own Math.random mock and   *)
(* its own real generator, both installing the same stub (SpecPair).       *)
(***************************************************************************)
\* how many positions the code's scripted sequence is rotated by
MaxRotate == 1

RECURSIVE Rotate(_, _)
Rotate(seq, k) ==
    IF k = 0 \/ seq = <<>> THEN seq ELSE Rotate(Append(Tail(seq), Head(seq)), k - 1)

\* the stub of test t: the code's (k = 0), or the same values in another order
StubVariant(t, k) ==
    [once |-> Rotate(CodeStub(t).once, k),
     hasDefault |-> CodeStub(t).hasDefault,
     dflt |-> IF CodeStub(t).hasDefault THEN (k * RandDen) \div 4 ELSE 0]

InitPair ==
    /\ RunnerIdle
    /\ ConfigIdle
    /\ LoopIdle
    /\ \E t \in ScriptedTests, k \in 0..MaxRotate : scripted = [test |-> t, stub |-> StubVariant(t, k)]
    /\ \E g1 \in PrngSeeds, g2 \in PrngSeeds :
          runs = [r \in 1..2 |->
                    [at |-> "start",
                     locals |-> InitLocals(scripted.test),
                     mock |-> RealRandom,
                     gen |-> [x |-> IF r = 1 THEN g1 ELSE g2, stride |-> 1]]]

PairSpyInstall(r) ==
    /\ runs[r].at = "start"
    /\ runs' = [runs EXCEPT ![r].mock = InstallStub(@, scripted.stub),
                            ![r].at = IF scripted.test = "shuffle" THEN "call" ELSE "run"]
    /\ UNCHANGED <<scripted, runnerVars, configVars, loopVars>>

PairShuffleCall(r) ==
    /\ runs[r].at = "call"
    /\ LET st == mockShuffleCopy(runs[r].locals)
       IN  runs' = [runs EXCEPT ![r].locals = st,
                                ![r].at = IF mockShuffleDone(st) THEN "expect" ELSE "run"]
    /\ UNCHANGED <<scripted, runnerVars, configVars, loopVars>>

PairRandomStep(r) ==
    /\ runs[r].at = "run"
    /\ LET st == Fold(scripted.test, runs[r].locals, RandomValue(runs[r].mock, runs[r].gen))
       IN  runs' = [runs EXCEPT ![r].locals = st,
                                ![r].mock = MockAfterCall(@),
                                ![r].gen = PrngAfterCall(runs[r].mock, @),
                                ![r].at = IF Finished(scripted.test, st) THEN "expect" ELSE "run"]
    /\ UNCHANGED <<scripted, runnerVars, configVars, loopVars>>

NextPair ==
    \/ \E r \in 1..2 : PairSpyInstall(r)
    \/ \E r \in 1..2 : PairShuffleCall(r)
    \/ \E r \in 1..2 : PairRandomStep(r)

SpecPair == InitPair /\ [][NextPair]_vars

\* C6: two runs of a test whose random source is a scripted stub, fed the same
\* scripted sequence, produce identical outputs, whatever their real generators
\* hold: the locals the assertions read agree once both runs have made their calls.
C6_SameScriptSameOutput ==
    (runs # <<>> /\ runs[1].at = "expect" /\ runs[2].at = "expect") =>
        runs[1].locals = runs[2].locals

C6_Witness ==
    /\ runs # <<>>
    /\ scripted.test = "probability"
    /\ runs[1].at = "expect"
    /\ runs[2].at = "expect"
    /\ runs[1].gen # runs[2].gen
    /\ runs[1].locals.successCount + runs[1].locals.failureCount = iterations

(***************************************************************************)
(* jest.config.js and the runner's choice of test files (SpecConfig).      *)
(* Paths and patterns are sequences of characters.                         *)
(***************************************************************************)
\* values of an environment variable; "<unset>" stands for undefined
EnvValues == {"<unset>", "", "true", "TRUE", "false", "1"}

\* const isCI = process.env.CI === "true" || process.env.GITHUB_ACTIONS === "true"
isCIBoth(e) == e.CI = "true" /\ e.GITHUB_ACTIONS = "true"

isCI(e) == e.CI = "true" \/ e.GITHUB_ACTIONS = "true"

AnyStar == [kind |-> "anyStar"]

Lits(str) == [k \in DOMAIN str |-> [kind |-> "char", c |-> str[k]]]

FlakyPrefix == <<"f", "l", "a", "k", "y", "-">>

TestJsSuffix == <<".", "t", "e", "s", "t", ".", "j", "s">>

\* the regular expression "flaky-.*\\.test\\.js"
FlakyPattern == Lits(FlakyPrefix) \o <<AnyStar>> \o Lits(TestJsSuffix)

\* testPathIgnorePatterns: isCI ? ["flaky-.*\\.test\\.js"] : []
testPathIgnorePatterns(e) == IF isCI(e) THEN <<FlakyPattern>> ELSE <<>>

Drop(str, k) == SubSeq(str, k + 1, Len(str))

\* the pattern matches a prefix of str
RECURSIVE RegexMatchAt(_, _)
RegexMatchAt(pat, str) ==
    IF pat = <<>> THEN TRUE
    ELSE IF Head(pat).kind = "anyStar"
         THEN \E k \in 0..Len(str) : RegexMatchAt(Tail(pat), Drop(str, k))
         ELSE str # <<>> /\ Head(str) = Head(pat).c /\ RegexMatchAt(Tail(pat), Tail(str))

\* new RegExp(pattern).test(path): the pattern matches somewhere in the path
RegexTest(pat, path) == \E k \in 0..Len(path) : RegexMatchAt(pat, Drop(path, k))

StartsWith(str, prefix) ==
    Len(str) >= Len(prefix) /\ SubSeq(str, 1, Len(prefix)) = prefix

EndsWith(str, suffix) ==
    Len(str) >= Len(suffix) /\ Drop(str, Len(str) - Len(suffix)) = suffix

RootTests == <<"/", "a", "p", "p", "/", "t", "e", "s", "t", "s", "/">>

\* testMatch: ["<rootDir>/tests/**/*.test.js"]
IsTestFile(path) ==
    /\ StartsWith(path, RootTests)
    /\ EndsWith(path, TestJsSuffix)
    /\ Len(path) > Len(RootTests) + Len(TestJsSuffix)

\* the files under tests/ the runner considers
Candidates ==
    << RootTests \o FlakyPrefix \o <<"r", "a", "n", "d", "o", "m", "n", "e", "s", "s">> \o TestJsSuffix,
       RootTests \o FlakyPrefix \o <<"i", "n", "t", "e", "r", "a", "c", "t", "i", "o", "n", "s">> \o TestJsSuffix,
       RootTests \o FlakyPrefix \o <<"x">> \o TestJsSuffix,
       RootTests \o <<"g", "a", "l", "l", "e", "r", "y">> \o TestJsSuffix,
       RootTests \o <<"f", "l", "a", "k", "y", "x">> \o TestJsSuffix,
       RootTests \o <<"s", "e", "t", "u", "p", ".", "j", "s">>,
       RootTests \o FlakyPrefix \o <<"a">> \o TestJsSuffix \o <<"x">>,
       RootTests \o FlakyPrefix \o <<"d", "i", "r", "/", "b">> \o TestJsSuffix >>

InitConfig ==
    /\ RunnerIdle
    /\ PairIdle
    /\ LoopIdle
    /\ env \in [CI : EnvValues, GITHUB_ACTIONS : EnvValues]
    /\ config = Unloaded
    /\ scan = 0
    /\ selected = {}

\* the runner loads jest.config.js
LoadConfig ==
    /\ ~config.loaded
    /\ config' = [loaded |-> TRUE, testPathIgnorePatterns |-> testPathIgnorePatterns(env)]
    /\ UNCHANGED <<env, scan, selected, runnerVars, pairVars, loopVars>>

\* the runner considers the next file: it runs the files testMatch matches and no
\* pattern of testPathIgnorePatterns matches
ConsiderFile ==
    /\ config.loaded
    /\ scan < Len(Candidates)
    /\ LET path == Candidates[scan + 1]
           ignored == \E k \in DOMAIN config.testPathIgnorePatterns :
                          RegexTest(config.testPathIgnorePatterns[k], path)
       IN  selected' = IF IsTestFile(path) /\ ~ignored THEN selected \cup {path} ELSE selected
    /\ scan' = scan + 1
    /\ UNCHANGED <<env, config, runnerVars, pairVars, loopVars>>

NextConfig ==
    \/ LoadConfig
    \/ ConsiderFile

SpecConfig == InitConfig /\ [][NextConfig]_vars

RECURSIVE Basename(_)
Basename(path) ==
    IF \E k \in DOMAIN path : path[k] = "/"
    THEN Basename(Tail(path))
    ELSE path

\* the file's name matches the glob flaky-*.test.js
NameIsFlaky(path) ==
    /\ StartsWith(Basename(path), FlakyPrefix)
    /\ EndsWith(Basename(path), TestJsSuffix)
    /\ Len(Basename(path)) >= Len(FlakyPrefix) + Len(TestJsSuffix)

Considered == {Candidates[k] : k \in 1..scan}

\* C8: when CI or GITHUB_ACTIONS equals "true", no test file whose name matches
\* flaky-*.test.js is run; when neither does, the ignore list is empty and every
\* test file considered is run.
C8_FlakyExcludedInCI ==
    config.loaded =>
        IF env.CI = "true" \/ env.GITHUB_ACTIONS = "true"
        THEN \A path \in Considered : (IsTestFile(path) /\ NameIsFlaky(path)) => path \notin selected
        ELSE /\ config.testPathIgnorePatterns = <<>>
             /\ selected = {path \in Considered : IsTestFile(path)}

C8_Witness ==
    /\ scan = Len(Candidates)
    /\ env.CI = "<unset>"
    /\ env.GITHUB_ACTIONS = "true"
    /\ Candidates[1] \notin selected
    /\ Candidates[4] \in selected

(***************************************************************************)
(* The tests of the other test files: flaky-dom.test.js and                *)
(* flaky-performance.test.js (unnamed/part_003), flaky-interactions.test.js,*)
(* flaky-network.test.js (unnamed/part_002) and flaky-state.test.js        *)
(* (unnamed/part_000), run one file after the other, each file in a fresh  *)
(* environment, the tests of a file in file order (SpecSuite).             *)
(*                                                                         *)
(* The event loop is modelled at millisecond resolution with callbacks     *)
(* that take no time: a real timer fires at the instant it is due, the     *)
(* earliest first and in creation order among equals.  The continuation of *)
(* an await runs before the next timer.                                    *)
(***************************************************************************)
SuiteOrder ==
    <<"dynamic", "clickable", "mutations", "rapid", "double", "input", "hover", "drag",
      "concurrent", "retry",
      "cache", "websocket", "upload", "heavy", "data", "memory", "cleanup",
      "counter", "history", "toggle", "form",
      "transitions">>

SuiteFile(t) ==
    CASE t \in {"dynamic", "clickable", "mutations"} -> "flaky-dom"
      [] t \in {"rapid", "double", "input", "hover", "drag"} -> "flaky-interactions"
      [] t \in {"concurrent", "retry", "cache", "websocket", "upload"} -> "flaky-network"
      [] t \in {"heavy", "data", "memory", "cleanup"} -> "flaky-performance"
      [] OTHER -> "flaky-state"

Running == IF pc.test \in DOMAIN SuiteOrder THEN SuiteOrder[pc.test] ELSE "none"

In(t, a) == Running = t /\ pc.at = a

SuiteIndex(t) == CHOOSE k \in DOMAIN SuiteOrder : SuiteOrder[k] = t

\* the test is the first one run in its file
FirstOfFile == pc.test = 1 \/ SuiteFile(SuiteOrder[pc.test - 1]) # SuiteFile(Running)

\* the test whose closure a callback of the real event loop belongs to, for the
\* callbacks that can still be pending when their test has ended
CallbackTest ==
    [input_validate |-> "input", hover_enter |-> "hover", hover_hovered |-> "hover",
     hover_left |-> "hover", history_update |-> "history",
     form_validate |-> "form", heavy_load |-> "heavy",
     data_batch |-> "data"]

\* the callback belongs to a test that has ended
IsStale(cb) == cb \in DOMAIN CallbackTest /\ CallbackTest[cb] # Running

\* the literal timestamp 0 (the epoch): it lies more than a day before every reading
\* of the clock and is only ever compared over spans shorter than a day
Epoch == 0 - MsPerDay

\* setTimeout of the real event loop: jsdom truncates the delay, Node raises a
\* delay below 1 ms to 1 ms
RealDelay(delay) == IF delay < 1 THEN 1 ELSE delay

ClearTimeoutNone(ft, id) == ft

ClearTimeout(ft, id) == [ft EXCEPT !.timers = {t \in @ : t.id # id}]

\* Math.random() * 120 + 80, as setTimeout takes it
DebounceDelay(r) == (r * 120) \div RandDen + 80

SuiteLocals(t) ==
    CASE t = "toggle" ->
            [isOn |-> FALSE, toggleCount |-> 0, status |-> "Off", timeout |-> 0,
             i |-> 0, tickTo |-> 0]
      [] t = "concurrent" ->
            [i |-> 0, jobs |-> <<>>, results |-> <<>>, fulfilled |-> {}, passed |-> FALSE]
      [] t = "retry" ->
            [attemptCount |-> 0, i |-> 0, log |-> <<>>,
             promise |-> [state |-> "none", success |-> FALSE, attempts |-> 0],
             result |-> [success |-> FALSE, attempts |-> 0], passed |-> FALSE]
      [] t = "cache" ->
            [cache |-> {}, key |-> "test-key", now |-> 0,
             p |-> [state |-> "none", result |-> "", timestamp |-> 0, fromCache |-> FALSE],
             resolved |-> FALSE, results |-> <<>>, tickTo |-> 0, passed |-> FALSE]
      [] t = "websocket" ->
            [connectionState |-> "disconnected", messagesReceived |-> <<>>, step |-> 0,
             tickTo |-> 0, passed |-> FALSE]
      [] t = "upload" ->
            [uploadProgress |-> 0, uploadComplete |-> FALSE, uploaded |-> 0, step |-> 0,
             tickTo |-> 0, passed |-> FALSE]
      [] t = "dynamic" -> [children |-> <<>>, resolved |-> FALSE]
      [] t = "clickable" ->
            [children |-> <<>>, listeners |-> 0, clickCount |-> 0, resolved |-> FALSE]
      [] t = "mutations" ->
            [children |-> <<>>, mutations |-> <<>>, step |-> 0, resolved |-> FALSE]
      [] t = "rapid" -> [clickCount |-> 0, counterText |-> <<"0">>, i |-> 0]
      [] t = "memory" ->
            [memoryAllocations |-> <<>>, memoryChecks |-> 0,
             memoryText |-> <<"M", "e", "m", "o", "r", "y", ":", " ", "0", "M", "B">>,
             i |-> 0]
      [] t = "counter" ->
            [counter |-> 0, pendingIncrements |-> 0, displayText |-> <<"0">>, i |-> 0]
      [] t = "double" ->
            [singleClicks |-> 0, doubleClicks |-> 0, clickTimeout |-> 0,
             lastClickTime |-> Epoch]
      [] t = "input" ->
            [value |-> <<>>, display |-> "", validationCount |-> 0, timeout |-> 0,
             captured |-> <<>>, typed |-> 0]
      [] t = "hover" -> [hoverCount |-> 0, status |-> "Not hovered"]
      [] t = "history" ->
            [stateHistory |-> <<>>, currentState |-> 0, historyText |-> <<>>,
             pending |-> {}, clicked |-> 0]
      [] t = "form" ->
            [nameValue |-> <<>>, emailValue |-> <<>>,
             formData |-> [name |-> <<>>, email |-> <<>>],
             validationCount |-> 0, status |-> "Not submitted"]
      [] t = "transitions" ->
            [state |-> [value |-> 0, history |-> <<>>, transitions |-> 0],
             displayText |-> <<"0">>, clicked |-> 0]
      [] t = "heavy" ->
            [loadingStarted |-> FALSE, loadingCompleted |-> FALSE, contentLoaded |-> FALSE,
             display |-> "none", innerHTML |-> <<>>]
      [] t = "data" ->
            [processingStarted |-> FALSE, progressUpdates |-> 0,
             processingCompleted |-> FALSE, width |-> <<"0", "%">>]
      [] t = "cleanup" ->
            [resourcesCreated |-> 0, resourcesCleaned |-> 0, cleanupCompleted |-> FALSE,
             children |-> <<>>]
      [] t = "drag" ->
            [dragStarted |-> FALSE, dragEnded |-> FALSE, dropCompleted |-> FALSE,
             status |-> "Not dragged"]
      [] OTHER -> NoLocals

SuiteEnd(passed) ==
    /\ outcome' = Append(outcome, [test |-> Running, passed |-> passed])
    /\ pc' = [test |-> pc.test + 1, at |-> "hooks"]
    /\ mem' = NoLocals

InitSuite ==
    /\ PairIdle
    /\ ConfigIdle
    /\ LoopIdle
    /\ tz \in TimeZones
    /\ pc = [test |-> 1, at |-> "hooks"]
    /\ mem = NoLocals
    /\ mockRandom = RealRandom
    /\ prng \in [x : PrngSeeds, stride : PrngSeeds]
    /\ fakeTimers = RealTimers
    /\ outcome = <<>>

\* before each test: restoreMocks, the beforeEach hooks of setup.js and of the file;
\* the first test of a file starts in a fresh environment, at any time of the day
SuiteHooks ==
    /\ pc.at = "hooks"
    /\ pc.test \in DOMAIN SuiteOrder
    /\ mockRandom' = RestoreMocks(mockRandom)
    /\ mem' = SuiteLocals(Running)
    /\ pc' = [pc EXCEPT !.at = "start"]
    /\ IF FirstOfFile
       THEN /\ fakeTimers' = RealTimers
            /\ \E w \in WallClockSamples : loop' = [NoTimers EXCEPT !.now = w]
       ELSE UNCHANGED <<fakeTimers, loop>>
    /\ UNCHANGED <<tz, prng, outcome>>
    /\ UNCHANGED <<pairVars, configVars>>

(***************************************************************************)
(* flaky-state.test.js, TEST 3: the debounced toggle under fake timers.    *)
(***************************************************************************)
\* jest.useFakeTimers(): the fake clock starts at the wall clock
Toggle_UseFakeTimers ==
    /\ In("toggle", "start")
    /\ fakeTimers' = [enabled |-> TRUE, now |-> loop.now, timers |-> {}, nextId |-> 1]
    /\ pc' = [pc EXCEPT !.at = "spy"]
    /\ UNCHANGED <<tz, mem, mockRandom, prng, outcome>>
    /\ UNCHANGED <<pairVars, configVars, loopVars>>

\* const randomSpy = jest.spyOn(Math, "random").mockReturnValue(0.5)
Toggle_Spy ==
    /\ In("toggle", "spy")
    /\ mockRandom' = MockReturnValue(SpyOnRandom(mockRandom), Dec(5, 1))
    /\ pc' = [pc EXCEPT !.at = "click"]
    /\ UNCHANGED <<tz, mem, prng, fakeTimers, outcome>>
    /\ UNCHANGED <<pairVars, configVars, loopVars>>

\* toggleBtn.click(): debouncedToggle clears the pending timer and sets a new one
Toggle_Click ==
    /\ In("toggle", "click")
    /\ mem.i < 3
    /\ LET cleared == ClearTimeout(fakeTimers, mem.timeout)
       IN  /\ fakeTimers' = SetTimeout(cleared, "toggle",
                                       DebounceDelay(RandomValue(mockRandom, prng)))
           /\ mem' = [mem EXCEPT !.timeout = cleared.nextId, !.i = @ + 1]
    /\ mockRandom' = MockAfterCall(mockRandom)
    /\ prng' = PrngAfterCall(mockRandom, prng)
    /\ UNCHANGED <<tz, pc, outcome>>
    /\ UNCHANGED <<pairVars, configVars, loopVars>>

\* jest.advanceTimersByTime(250): the target time
Toggle_Advance ==
    /\ In("toggle", "click")
    /\ mem.i = 3
    /\ mem' = [mem EXCEPT !.tickTo = fakeTimers.now + 250]
    /\ pc' = [pc EXCEPT !.at = "ticking"]
    /\ UNCHANGED <<tz, mockRandom, prng, fakeTimers, outcome>>
    /\ UNCHANGED <<pairVars, configVars, loopVars>>

\* advanceTimersByTime fires the next due timer: the toggle
Toggle_Fire ==
    /\ In("toggle", "ticking")
    /\ DueTimers(fakeTimers, mem.tickTo) # {}
    /\ LET t == FirstTimer(fakeTimers, mem.tickTo)
       IN  /\ fakeTimers' = [fakeTimers EXCEPT !.now = t.callAt, !.timers = @ \ {t}]
           /\ mem' = [mem EXCEPT !.isOn = ~@,
                                 !.toggleCount = @ + 1,
                                 !.status = IF ~mem.isOn THEN "On" ELSE "Off"]
    /\ UNCHANGED <<tz, pc, mockRandom, prng, outcome>>
    /\ UNCHANGED <<pairVars, configVars, loopVars>>

\* advanceTimersByTime returns: no timer is due and the clock is at the target
Toggle_Advanced ==
    /\ In("toggle", "ticking")
    /\ DueTimers(fakeTimers, mem.tickTo) = {}
    /\ fakeTimers' = [fakeTimers EXCEPT !.now = mem.tickTo]
    /\ pc' = [pc EXCEPT !.at = "expect"]
    /\ UNCHANGED <<tz, mem, mockRandom, prng, outcome>>
    /\ UNCHANGED <<pairVars, configVars, loopVars>>

\* the two expects; then randomSpy.mockRestore() and jest.useRealTimers(), which a
\* failed expect skips
Toggle_Expect ==
    /\ In("toggle", "expect")
    /\ IF mem.toggleCount = 1 /\ mem.status = "On"
       THEN /\ mockRandom' = RealRandom
            /\ fakeTimers' = RealTimers
            /\ SuiteEnd(TRUE)
       ELSE /\ UNCHANGED <<mockRandom, fakeTimers>>
            /\ SuiteEnd(FALSE)
    /\ UNCHANGED <<tz, prng>>
    /\ UNCHANGED <<pairVars, configVars, loopVars>>

(***************************************************************************)
(* flaky-network.test.js.  A promise's reactions are jobs: resolving a     *)
(* promise queues its reaction, and the queued jobs run, first in first    *)
(* out, when the test function next awaits.  afterEach puts the real       *)
(* timers back after every test of this file.                              *)
(***************************************************************************)
ResolveLast(jobs, job) == <<job>>

\* resolve(value): the reaction registered by then() is queued
Resolve(jobs, job) == Append(jobs, job)

\* the latest time at which a pending timer is due
LastCallAt(ft) == CHOOSE m \in {t.callAt : t \in ft.timers} : \A t \in ft.timers : t.callAt <= m

\* the timer jest.runAllTimers() fires next
NextTimer(ft) == FirstTimer(ft, LastCallAt(ft))

\* afterEach(() => { jest.clearAllMocks(); jest.useRealTimers(); })
Network_AfterEach ==
    /\ pc.at = "afterEach"
    /\ Running # "none"
    /\ SuiteFile(Running) = "flaky-network"
    /\ fakeTimers' = RealTimers
    /\ SuiteEnd(mem.passed)
    /\ UNCHANGED <<tz, mockRandom, prng>>
    /\ UNCHANGED <<pairVars, configVars, loopVars>>

(***************************************************************************)
(* "should handle concurrent API calls without assuming order"             *)
(***************************************************************************)
\* mockApiCall1, mockApiCall2, mockApiCall3: what each resolves with, and after how long
ApiCalls ==
    <<[cb |-> "mockApiCall1", id |-> 1, data |-> "First API", delay |-> 120],
      [cb |-> "mockApiCall2", id |-> 2, data |-> "Second API", delay |-> 80],
      [cb |-> "mockApiCall3", id |-> 3, data |-> "Third API", delay |-> 160]>>

ApiOf(cb) == CHOOSE k \in DOMAIN ApiCalls : ApiCalls[k].cb = cb

\* results.map((r) => r.id).sort((a, b) => a - b)
SortedIds(results) == Sort([k \in DOMAIN results |-> results[k].id])

\* jest.useFakeTimers()
Concurrent_UseFakeTimers ==
    /\ In("concurrent", "start")
    /\ fakeTimers' = [enabled |-> TRUE, now |-> loop.now, timers |-> {}, nextId |-> 1]
    /\ pc' = [pc EXCEPT !.at = "call"]
    /\ UNCHANGED <<tz, mem, mockRandom, prng, outcome>>
    /\ UNCHANGED <<pairVars, configVars, loopVars>>

\* mockApiCall<i>().then((r) => results.push(r)): the call sets its timer
Concurrent_Call ==
    /\ In("concurrent", "call")
    /\ mem.i < Len(ApiCalls)
    /\ fakeTimers' = SetTimeout(fakeTimers, ApiCalls[mem.i + 1].cb, ApiCalls[mem.i + 1].delay)
    /\ mem' = [mem EXCEPT !.i = @ + 1]
    /\ UNCHANGED <<tz, pc, mockRandom, prng, outcome>>
    /\ UNCHANGED <<pairVars, configVars, loopVars>>

\* const all = Promise.all(promises); jest.runAllTimers() is entered
Concurrent_RunAllTimers ==
    /\ In("concurrent", "call")
    /\ mem.i = Len(ApiCalls)
    /\ pc' = [pc EXCEPT !.at = "running"]
    /\ UNCHANGED <<tz, mem, mockRandom, prng, fakeTimers, outcome>>
    /\ UNCHANGED <<pairVars, configVars, loopVars>>

\* runAllTimers fires the next timer: resolve({ id, data })
Concurrent_Fire ==
    /\ In("concurrent", "running")
    /\ fakeTimers.timers # {}
    /\ LET t == NextTimer(fakeTimers)
           api == ApiCalls[ApiOf(t.cb)]
       IN  /\ fakeTimers' = [fakeTimers EXCEPT !.now = t.callAt, !.timers = @ \ {t}]
           /\ mem' = [mem EXCEPT !.jobs = Resolve(@, [id |-> api.id, data |-> api.data])]
    /\ UNCHANGED <<tz, pc, mockRandom, prng, outcome>>
    /\ UNCHANGED <<pairVars, configVars, loopVars>>

\* runAllTimers returns: no timer is left; await all
Concurrent_Await ==
    /\ In("concurrent", "running")
    /\ fakeTimers.timers = {}
    /\ pc' = [pc EXCEPT !.at = "await"]
    /\ UNCHANGED <<tz, mem, mockRandom, prng, fakeTimers, outcome>>
    /\ UNCHANGED <<pairVars, configVars, loopVars>>

\* a queued reaction runs: results.push(r), which fulfils the promise then() returned
Concurrent_Then ==
    /\ In("concurrent", "await")
    /\ mem.jobs # <<>>
    /\ mem' = [mem EXCEPT !.results = Append(@, Head(mem.jobs)),
                          !.fulfilled = @ \cup {Head(mem.jobs).id},
                          !.jobs = Tail(@)]
    /\ UNCHANGED <<tz, pc, mockRandom, prng, fakeTimers, outcome>>
    /\ UNCHANGED <<pairVars, configVars, loopVars>>

\* no job is left: Promise.all is fulfilled once its three promises are, and the test
\* goes on; otherwise the await never returns and the test times out
Concurrent_Settled ==
    /\ In("concurrent", "await")
    /\ mem.jobs = <<>>
    /\ IF mem.fulfilled = {ApiCalls[k].id : k \in DOMAIN ApiCalls}
       THEN pc' = [pc EXCEPT !.at = "expect"] /\ UNCHANGED mem
       ELSE pc' = [pc EXCEPT !.at = "afterEach"] /\ mem' = [mem EXCEPT !.passed = FALSE]
    /\ UNCHANGED <<tz, mockRandom, prng, fakeTimers, outcome>>
    /\ UNCHANGED <<pairVars, configVars, loopVars>>

\* expect(results).toHaveLength(3); expect(ids).toEqual([1, 2, 3])
Concurrent_Expect ==
    /\ In("concurrent", "expect")
    /\ mem' = [mem EXCEPT !.passed = (Len(mem.results) = 3 /\ SortedIds(mem.results) = <<1, 2, 3>>)]
    /\ pc' = [pc EXCEPT !.at = "afterEach"]
    /\ UNCHANGED <<tz, mockRandom, prng, fakeTimers, outcome>>
    /\ UNCHANGED <<pairVars, configVars, loopVars>>

(***************************************************************************)
(* "should retry failed requests and succeed within limit"                 *)
(***************************************************************************)
maxRetriesTwo == 3 - 1

maxRetries == 3

\* fail, fail, succeed
outcomes == <<FALSE, FALSE, TRUE>>

\* outcomes[attemptCount - 1] === true
shouldSucceed(attemptCount) == attemptCount \in DOMAIN outcomes /\ outcomes[attemptCount]

\* mockRetryRequest's loop: while i < maxRetries, mockUnreliableApi() is called and
\* returns a settled promise, which the loop awaits; past the loop the function
\* returns undefined, and the test's result.success throws
Retry_Attempt ==
    /\ In("retry", "start")
    /\ IF mem.i < maxRetries
       THEN /\ mem' = [mem EXCEPT
                          !.attemptCount = @ + 1,
                          !.log = Append(@, shouldSucceed(mem.attemptCount + 1)),
                          !.promise = IF shouldSucceed(mem.attemptCount + 1)
                                      THEN [state |-> "fulfilled", success |-> TRUE,
                                            attempts |-> mem.attemptCount + 1]
                                      ELSE [state |-> "rejected", success |-> FALSE,
                                            attempts |-> mem.attemptCount + 1]]
            /\ pc' = [pc EXCEPT !.at = "await"]
       ELSE /\ mem' = [mem EXCEPT !.passed = FALSE]
            /\ pc' = [pc EXCEPT !.at = "afterEach"]
    /\ UNCHANGED <<tz, mockRandom, prng, fakeTimers, outcome>>
    /\ UNCHANGED <<pairVars, configVars, loopVars>>

\* the await in the loop returns or throws: a result is returned to the test; an
\* error of the last round is thrown to the test, which fails; any other error is
\* caught and the loop goes on
Retry_Continue ==
    /\ In("retry", "await")
    /\ IF mem.promise.state = "fulfilled"
       THEN /\ mem' = [mem EXCEPT !.result = [success |-> mem.promise.success,
                                             attempts |-> mem.promise.attempts]]
            /\ pc' = [pc EXCEPT !.at = "expect"]
       ELSE IF mem.i = maxRetries - 1
       THEN /\ mem' = [mem EXCEPT !.passed = FALSE]
            /\ pc' = [pc EXCEPT !.at = "afterEach"]
       ELSE /\ mem' = [mem EXCEPT !.i = @ + 1]
            /\ pc' = [pc EXCEPT !.at = "start"]
    /\ UNCHANGED <<tz, mockRandom, prng, fakeTimers, outcome>>
    /\ UNCHANGED <<pairVars, configVars, loopVars>>

\* the three expects
Retry_Expect ==
    /\ In("retry", "expect")
    /\ mem' = [mem EXCEPT !.passed = /\ mem.result.success = TRUE
                                     /\ mem.result.attempts = 3
                                     /\ mem.attemptCount = 3]
    /\ pc' = [pc EXCEPT !.at = "afterEach"]
    /\ UNCHANGED <<tz, mockRandom, prng, fakeTimers, outcome>>
    /\ UNCHANGED <<pairVars, configVars, loopVars>>

(***************************************************************************)
(* "should handle cache expiration deterministically"                      *)
(***************************************************************************)
cacheExpiryLong == 200 + 200

cacheExpiry == 200

\* cache.get(key): the entries of the Map under the key (none or one)
cacheGet(cache, key) == {c \in cache : c.key = key}

\* cache.set(key, { data, timestamp })
cacheSet(cache, key, data, timestamp) ==
    {c \in cache : c.key # key} \cup {[key |-> key, data |-> data, timestamp |-> timestamp]}

\* cached && now - cached.timestamp < cacheExpiry
cacheFresh(cache, key, now) == \E c \in cacheGet(cache, key) : now - c.timestamp < cacheExpiry

\* what the test expects of result1, result2 and result3
cacheExpected == <<FALSE, TRUE, FALSE>>

NoPromise == [state |-> "none", result |-> "", timestamp |-> 0, fromCache |-> FALSE]

\* jest.useFakeTimers()
Cache_UseFakeTimers ==
    /\ In("cache", "start")
    /\ fakeTimers' = [enabled |-> TRUE, now |-> loop.now, timers |-> {}, nextId |-> 1]
    /\ pc' = [pc EXCEPT !.at = "setSystemTime"]
    /\ UNCHANGED <<tz, mem, mockRandom, prng, outcome>>
    /\ UNCHANGED <<pairVars, configVars, loopVars>>

\* jest.setSystemTime(new Date(0))
Cache_SetSystemTime ==
    /\ In("cache", "setSystemTime")
    /\ fakeTimers' = [fakeTimers EXCEPT !.now = Epoch]
    /\ pc' = [pc EXCEPT !.at = "call"]
    /\ UNCHANGED <<tz, mem, mockRandom, prng, outcome>>
    /\ UNCHANGED <<pairVars, configVars, loopVars>>

\* p = mockCachedApiCall(key), up to its return or its await: a fresh entry is
\* returned at once; otherwise the 50 ms timer is set and p is pending
Cache_Call ==
    /\ In("cache", "call")
    /\ LET now == fakeTimers.now
           cached == CHOOSE c \in cacheGet(mem.cache, mem.key) : TRUE
       IN  IF cacheFresh(mem.cache, mem.key, now)
           THEN /\ mem' = [mem EXCEPT !.now = now,
                                      !.p = [state |-> "fulfilled", result |-> cached.data.result,
                                             timestamp |-> cached.data.timestamp,
                                             fromCache |-> TRUE]]
                /\ UNCHANGED fakeTimers
           ELSE /\ mem' = [mem EXCEPT !.now = now, !.p = [NoPromise EXCEPT !.state = "pending"]]
                /\ fakeTimers' = SetTimeout(fakeTimers, "resolve", 50)
    /\ pc' = [pc EXCEPT !.at = "runPending"]
    /\ UNCHANGED <<tz, mockRandom, prng, outcome>>
    /\ UNCHANGED <<pairVars, configVars, loopVars>>

\* jest.runOnlyPendingTimers(): the timers pending now are to be run
Cache_RunPending ==
    /\ In("cache", "runPending")
    /\ mem' = [mem EXCEPT !.tickTo = IF fakeTimers.timers = {} THEN fakeTimers.now
                                     ELSE LastCallAt(fakeTimers)]
    /\ pc' = [pc EXCEPT !.at = "running"]
    /\ UNCHANGED <<tz, mockRandom, prng, fakeTimers, outcome>>
    /\ UNCHANGED <<pairVars, configVars, loopVars>>

\* the next due timer fires: resolve(), which queues the rest of mockCachedApiCall
Cache_Fire ==
    /\ Running = "cache"
    /\ pc.at \in {"running", "advancing"}
    /\ DueTimers(fakeTimers, mem.tickTo) # {}
    /\ LET t == FirstTimer(fakeTimers, mem.tickTo)
       IN  fakeTimers' = [fakeTimers EXCEPT !.now = t.callAt, !.timers = @ \ {t}]
    /\ mem' = [mem EXCEPT !.resolved = TRUE]
    /\ UNCHANGED <<tz, pc, mockRandom, prng, outcome>>
    /\ UNCHANGED <<pairVars, configVars, loopVars>>

\* runOnlyPendingTimers / advanceTimersByTime returns, the clock at the target
Cache_Ran ==
    /\ Running = "cache"
    /\ pc.at \in {"running", "advancing"}
    /\ DueTimers(fakeTimers, mem.tickTo) = {}
    /\ fakeTimers' = [fakeTimers EXCEPT !.now = mem.tickTo]
    /\ pc' = [pc EXCEPT !.at = IF pc.at = "running" THEN "await" ELSE "call"]
    /\ UNCHANGED <<tz, mem, mockRandom, prng, outcome>>
    /\ UNCHANGED <<pairVars, configVars, loopVars>>

\* the rest of mockCachedApiCall, run at the test's await: the entry is stored under
\* the time the call started at and p is fulfilled
Cache_Store ==
    /\ In("cache", "await")
    /\ mem.resolved
    /\ LET data == [result |-> mem.key, timestamp |-> mem.now]
       IN  mem' = [mem EXCEPT !.cache = cacheSet(@, mem.key, data, mem.now),
                              !.p = [state |-> "fulfilled", result |-> data.result,
                                     timestamp |-> data.timestamp, fromCache |-> FALSE],
                              !.resolved = FALSE]
    /\ UNCHANGED <<tz, pc, mockRandom, prng, fakeTimers, outcome>>
    /\ UNCHANGED <<pairVars, configVars, loopVars>>

\* const result = await p; p still pending with nothing left to run, the await
\* never returns and the test times out
Cache_Result ==
    /\ In("cache", "await")
    /\ ~mem.resolved
    /\ IF mem.p.state = "fulfilled"
       THEN /\ mem' = [mem EXCEPT !.results = Append(@, [key |-> mem.key, at |-> mem.now,
                                                         fromCache |-> mem.p.fromCache])]
            /\ pc' = [pc EXCEPT !.at = "expect"]
       ELSE /\ mem' = [mem EXCEPT !.passed = FALSE]
            /\ pc' = [pc EXCEPT !.at = "afterEach"]
    /\ UNCHANGED <<tz, mockRandom, prng, fakeTimers, outcome>>
    /\ UNCHANGED <<pairVars, configVars, loopVars>>

\* expect(result<n>.fromCache).toBe(...); the second one passed,
\* jest.advanceTimersByTime(250) follows; the third one passed, the test ends
Cache_Expect ==
    /\ In("cache", "expect")
    /\ LET n == Len(mem.results)
       IN  IF mem.results[n].fromCache # cacheExpected[n]
           THEN mem' = [mem EXCEPT !.passed = FALSE] /\ pc' = [pc EXCEPT !.at = "afterEach"]
           ELSE IF n = 3
           THEN mem' = [mem EXCEPT !.passed = TRUE] /\ pc' = [pc EXCEPT !.at = "afterEach"]
           ELSE IF n = 2
           THEN mem' = [mem EXCEPT !.tickTo = fakeTimers.now + 250]
                /\ pc' = [pc EXCEPT !.at = "advancing"]
           ELSE UNCHANGED mem /\ pc' = [pc EXCEPT !.at = "call"]
    /\ UNCHANGED <<tz, mockRandom, prng, fakeTimers, outcome>>
    /\ UNCHANGED <<pairVars, configVars, loopVars>>



(***************************************************************************)
(* "should handle WebSocket events deterministically"                      *)
(***************************************************************************)
connectDelay == 50

echoDelayLong == 20 + 10

echoDelay == 20

\* mockWebSocket.send(message): the echo is scheduled only when connected
send(connectionState, ft) ==
    IF connectionState = "connected" THEN SetTimeout(ft, "echo", echoDelay) ELSE ft

\* the spans of the two jest.advanceTimersByTime calls
WebSocketAdvances == <<50, 20>>

\* jest.useFakeTimers()
WebSocket_UseFakeTimers ==
    /\ In("websocket", "start")
    /\ fakeTimers' = [enabled |-> TRUE, now |-> loop.now, timers |-> {}, nextId |-> 1]
    /\ pc' = [pc EXCEPT !.at = "connect"]
    /\ UNCHANGED <<tz, mem, mockRandom, prng, outcome>>
    /\ UNCHANGED <<pairVars, configVars, loopVars>>

\* mockWebSocket.connect()
WebSocket_Connect ==
    /\ In("websocket", "connect")
    /\ fakeTimers' = SetTimeout(fakeTimers, "open", connectDelay)
    /\ pc' = [pc EXCEPT !.at = "advance"]
    /\ UNCHANGED <<tz, mem, mockRandom, prng, outcome>>
    /\ UNCHANGED <<pairVars, configVars, loopVars>>

\* jest.advanceTimersByTime(50), then jest.advanceTimersByTime(20): the target time
WebSocket_Advance ==
    /\ In("websocket", "advance")
    /\ mem' = [mem EXCEPT !.step = @ + 1,
                          !.tickTo = fakeTimers.now + WebSocketAdvances[mem.step + 1]]
    /\ pc' = [pc EXCEPT !.at = "ticking"]
    /\ UNCHANGED <<tz, mockRandom, prng, fakeTimers, outcome>>
    /\ UNCHANGED <<pairVars, configVars, loopVars>>

\* the next due timer fires.  connect's: the state is 'connected' and onopen sends
\* the greeting.  send's: the echo is received and onmessage is entered
WebSocket_Fire ==
    /\ In("websocket", "ticking")
    /\ DueTimers(fakeTimers, mem.tickTo) # {}
    /\ LET t == FirstTimer(fakeTimers, mem.tickTo)
           fired == [fakeTimers EXCEPT !.now = t.callAt, !.timers = @ \ {t}]
       IN  IF t.cb = "open"
           THEN /\ mem' = [mem EXCEPT !.connectionState = "connected"]
                /\ fakeTimers' = send("connected", fired)
                /\ UNCHANGED pc
           ELSE /\ mem' = [mem EXCEPT !.messagesReceived = Append(@, "Echo: Hello WebSocket")]
                /\ fakeTimers' = fired
                /\ pc' = [pc EXCEPT !.at = "onmessage"]
    /\ UNCHANGED <<tz, mockRandom, prng, outcome>>
    /\ UNCHANGED <<pairVars, configVars, loopVars>>

\* mockWebSocket.onmessage: its three expects; a failed one throws out of
\* advanceTimersByTime and the test fails
WebSocket_OnMessage ==
    /\ In("websocket", "onmessage")
    /\ IF /\ mem.connectionState = "connected"
          /\ \E k \in DOMAIN mem.messagesReceived :
                mem.messagesReceived[k] = "Echo: Hello WebSocket"
          /\ Len(mem.messagesReceived) = 1
       THEN pc' = [pc EXCEPT !.at = "ticking"] /\ UNCHANGED mem
       ELSE pc' = [pc EXCEPT !.at = "afterEach"] /\ mem' = [mem EXCEPT !.passed = FALSE]
    /\ UNCHANGED <<tz, mockRandom, prng, fakeTimers, outcome>>
    /\ UNCHANGED <<pairVars, configVars, loopVars>>

\* advanceTimersByTime returns, the clock at the target
WebSocket_Advanced ==
    /\ In("websocket", "ticking")
    /\ DueTimers(fakeTimers, mem.tickTo) = {}
    /\ fakeTimers' = [fakeTimers EXCEPT !.now = mem.tickTo]
    /\ pc' = [pc EXCEPT !.at = IF mem.step < Len(WebSocketAdvances) THEN "advance" ELSE "expect"]
    /\ UNCHANGED <<tz, mem, mockRandom, prng, outcome>>
    /\ UNCHANGED <<pairVars, configVars, loopVars>>

\* expect(connectionState).toBe("connected");
\* expect(messagesReceived).toEqual(["Echo: Hello WebSocket"])
WebSocket_Expect ==
    /\ In("websocket", "expect")
    /\ mem' = [mem EXCEPT !.passed = /\ mem.connectionState = "connected"
                                     /\ mem.messagesReceived = <<"Echo: Hello WebSocket">>]
    /\ pc' = [pc EXCEPT !.at = "afterEach"]
    /\ UNCHANGED <<tz, mockRandom, prng, fakeTimers, outcome>>
    /\ UNCHANGED <<pairVars, configVars, loopVars>>

(***************************************************************************)
(* "should track upload progress deterministically"                        *)
(***************************************************************************)
totalSize == 1000

chunkSizeHalf == 200 - 100

chunkSize == 200

\* uploaded = Math.min(uploaded + chunkSize, totalSize)
uploadedAfter(uploaded) ==
    IF uploaded + chunkSize < totalSize THEN uploaded + chunkSize ELSE totalSize

\* Math.floor((uploaded / totalSize) * 100)
progressOf(uploaded) == (uploaded * 100) \div totalSize

\* the progress each expect of the test asks for, in order
uploadExpected == <<20, 40, 60, 80, 100>>

\* uploadChunk(): the locals after the chunk
chunkLocals(st) ==
    [st EXCEPT !.uploaded = uploadedAfter(st.uploaded),
               !.uploadProgress = progressOf(uploadedAfter(st.uploaded)),
               !.uploadComplete = @ \/ uploadedAfter(st.uploaded) >= totalSize]

\* uploadChunk(): the timers after the chunk; the last chunk sets none
chunkTimers(st, ft) ==
    IF uploadedAfter(st.uploaded) >= totalSize THEN ft ELSE SetTimeout(ft, "uploadChunk", 20)

\* jest.useFakeTimers()
Upload_UseFakeTimers ==
    /\ In("upload", "start")
    /\ fakeTimers' = [enabled |-> TRUE, now |-> loop.now, timers |-> {}, nextId |-> 1]
    /\ pc' = [pc EXCEPT !.at = "call"]
    /\ UNCHANGED <<tz, mem, mockRandom, prng, outcome>>
    /\ UNCHANGED <<pairVars, configVars, loopVars>>

\* mockFileUpload({ name: "test.jpg", size: 1000 }): the first chunk
Upload_Call ==
    /\ In("upload", "call")
    /\ mem' = chunkLocals(mem)
    /\ fakeTimers' = chunkTimers(mem, fakeTimers)
    /\ pc' = [pc EXCEPT !.at = "expect"]
    /\ UNCHANGED <<tz, mockRandom, prng, outcome>>
    /\ UNCHANGED <<pairVars, configVars, loopVars>>

\* expect(uploadProgress).toBe(...), followed by jest.advanceTimersByTime(20) or,
\* after the last one, by expect(uploadComplete).toBe(true)
Upload_Expect ==
    /\ In("upload", "expect")
    /\ IF mem.uploadProgress # uploadExpected[mem.step + 1]
       THEN mem' = [mem EXCEPT !.passed = FALSE] /\ pc' = [pc EXCEPT !.at = "afterEach"]
       ELSE IF mem.step + 1 = Len(uploadExpected)
       THEN mem' = [mem EXCEPT !.passed = mem.uploadComplete]
            /\ pc' = [pc EXCEPT !.at = "afterEach"]
       ELSE mem' = [mem EXCEPT !.step = @ + 1, !.tickTo = fakeTimers.now + 20]
            /\ pc' = [pc EXCEPT !.at = "ticking"]
    /\ UNCHANGED <<tz, mockRandom, prng, fakeTimers, outcome>>
    /\ UNCHANGED <<pairVars, configVars, loopVars>>

\* the next due timer fires: uploadChunk
Upload_Fire ==
    /\ In("upload", "ticking")
    /\ DueTimers(fakeTimers, mem.tickTo) # {}
    /\ LET t == FirstTimer(fakeTimers, mem.tickTo)
           fired == [fakeTimers EXCEPT !.now = t.callAt, !.timers = @ \ {t}]
       IN  /\ mem' = chunkLocals(mem)
           /\ fakeTimers' = chunkTimers(mem, fired)
    /\ UNCHANGED <<tz, pc, mockRandom, prng, outcome>>
    /\ UNCHANGED <<pairVars, configVars, loopVars>>

\* advanceTimersByTime returns, the clock at the target
Upload_Advanced ==
    /\ In("upload", "ticking")
    /\ DueTimers(fakeTimers, mem.tickTo) = {}
    /\ fakeTimers' = [fakeTimers EXCEPT !.now = mem.tickTo]
    /\ pc' = [pc EXCEPT !.at = "expect"]
    /\ UNCHANGED <<tz, mem, mockRandom, prng, outcome>>
    /\ UNCHANGED <<pairVars, configVars, loopVars>>

(***************************************************************************)
(* flaky-dom.test.js: real timers; the test function awaits the promise    *)
(* its timer resolves.  The children of #element-list are a sequence of    *)
(* elements.                                                               *)
(***************************************************************************)
appendChildDetached(children, element) == children

\* container.appendChild(element)
appendChild(children, element) == Append(children, element)

removeFirstChildLast(children) == SubSeq(children, 1, Len(children) - 1)

\* container.removeChild(container.firstElementChild)
removeFirstChild(children) == Tail(children)

\* document.querySelector('.' + className): the matching children, in document order
querySelector(children, className) ==
    SelectSeq(children, LAMBDA element : element.className = className)

\* Math.random() * 150 + 50, as setTimeout takes it
AddDelay(r) == RealDelay((r * 150) \div RandDen + 50)

HandlerDelayLong(r) == RealDelay((r * 200) \div RandDen + 50)

\* Math.random() * 100 + 50, as setTimeout takes it
HandlerDelay(r) == RealDelay((r * 100) \div RandDen + 50)

\* the timer the event loop fires next, the clock moved to its time, and the loop
\* after it has fired
LoopFired(lp) == [lp EXCEPT !.now = NextTimer(lp).callAt, !.timers = @ \ {NextTimer(lp)}]

(***************************************************************************)
(* TEST 6: "should find dynamically created elements"                      *)
(***************************************************************************)
\* await mockAddElement(), up to the await: the timer is set
Dynamic_Add ==
    /\ In("dynamic", "start")
    /\ loop' = SetTimeout(loop, "addElement", AddDelay(RandomValue(mockRandom, prng)))
    /\ mockRandom' = MockAfterCall(mockRandom)
    /\ prng' = PrngAfterCall(mockRandom, prng)
    /\ pc' = [pc EXCEPT !.at = "await"]
    /\ UNCHANGED <<tz, mem, fakeTimers, outcome>>
    /\ UNCHANGED <<pairVars, configVars>>

\* the timer fires: the element is created and appended, the promise resolved
Dynamic_Fire ==
    /\ In("dynamic", "await")
    /\ ~mem.resolved
    /\ loop.timers # {}
    /\ loop' = LoopFired(loop)
    /\ mem' = [mem EXCEPT !.children = appendChild(@, [tag |-> "div",
                                                       className |-> "dynamic-item",
                                                       textContent |-> "Dynamic Item"]),
                          !.resolved = TRUE]
    /\ UNCHANGED <<tz, pc, mockRandom, prng, fakeTimers, outcome>>
    /\ UNCHANGED <<pairVars, configVars>>

\* the await returns
Dynamic_Resume ==
    /\ In("dynamic", "await")
    /\ mem.resolved
    /\ pc' = [pc EXCEPT !.at = "expect"]
    /\ UNCHANGED <<tz, mem, mockRandom, prng, fakeTimers, outcome>>
    /\ UNCHANGED <<pairVars, configVars, loopVars>>

\* expect(dynamicElement).toBeInTheDocument();
\* expect(dynamicElement.textContent).toBe('Dynamic Item')
Dynamic_Expect ==
    /\ In("dynamic", "expect")
    /\ LET found == querySelector(mem.children, "dynamic-item")
       IN  SuiteEnd(found # <<>> /\ found[1].textContent = "Dynamic Item")
    /\ UNCHANGED <<tz, mockRandom, prng, fakeTimers>>
    /\ UNCHANGED <<pairVars, configVars, loopVars>>

(***************************************************************************)
(* TEST 8: "should handle events on dynamically created elements"          *)
(***************************************************************************)
\* await mockCreateClickableElement(), up to the await: the button is appended and
\* the timer that attaches its click listener is set
Clickable_Create ==
    /\ In("clickable", "start")
    /\ mem' = [mem EXCEPT !.children = appendChild(@, [tag |-> "button",
                                                       className |-> "clickable-item",
                                                       textContent |-> "Click me"])]
    /\ loop' = SetTimeout(loop, "addEventListener", HandlerDelay(RandomValue(mockRandom, prng)))
    /\ mockRandom' = MockAfterCall(mockRandom)
    /\ prng' = PrngAfterCall(mockRandom, prng)
    /\ pc' = [pc EXCEPT !.at = "await"]
    /\ UNCHANGED <<tz, fakeTimers, outcome>>
    /\ UNCHANGED <<pairVars, configVars>>

\* the timer fires: the listener is attached, the promise resolved with the button
Clickable_Fire ==
    /\ In("clickable", "await")
    /\ ~mem.resolved
    /\ loop.timers # {}
    /\ loop' = LoopFired(loop)
    /\ mem' = [mem EXCEPT !.listeners = @ + 1, !.resolved = TRUE]
    /\ UNCHANGED <<tz, pc, mockRandom, prng, fakeTimers, outcome>>
    /\ UNCHANGED <<pairVars, configVars>>

\* the await returns; clickableElement.click() runs every attached listener
Clickable_Click ==
    /\ In("clickable", "await")
    /\ mem.resolved
    /\ mem' = [mem EXCEPT !.clickCount = @ + mem.listeners]
    /\ pc' = [pc EXCEPT !.at = "expect"]
    /\ UNCHANGED <<tz, mockRandom, prng, fakeTimers, outcome>>
    /\ UNCHANGED <<pairVars, configVars, loopVars>>

\* expect(clickCount).toBe(1); expect(clickableElement).toBeInTheDocument()
Clickable_Expect ==
    /\ In("clickable", "expect")
    /\ SuiteEnd(mem.clickCount = 1 /\ querySelector(mem.children, "clickable-item") # <<>>)
    /\ UNCHANGED <<tz, mockRandom, prng, fakeTimers>>
    /\ UNCHANGED <<pairVars, configVars, loopVars>>

(***************************************************************************)
(* TEST 10: "should handle multiple DOM mutations correctly"               *)
(***************************************************************************)
\* the three steps of mockObserveMutations, in the order of its awaits: the timer's
\* callback, and Math.random() * scale + base, the delay of its timer
MutationSteps ==
    <<[cb |-> "addFirst", scale |-> 20, base |-> 0],
      [cb |-> "addSecond", scale |-> 40, base |-> 10],
      [cb |-> "removeFirst", scale |-> 60, base |-> 20]>>

MutationDelay(step, r) == RealDelay((r * step.scale) \div RandDen + step.base)

\* what the callback of a step does to the container and to the list of mutations
MutationEffect(cb, st) ==
    CASE cb = "addFirst" ->
            [st EXCEPT !.children = appendChild(@, [tag |-> "div", className |-> "",
                                                    textContent |-> "First"]),
                       !.mutations = Append(@, "added-first")]
      [] cb = "addSecond" ->
            [st EXCEPT !.children = appendChild(@, [tag |-> "div", className |-> "",
                                                    textContent |-> "Second"]),
                       !.mutations = Append(@, "added-second")]
      [] OTHER ->
            IF st.children # <<>>
            THEN [st EXCEPT !.children = removeFirstChild(@),
                            !.mutations = Append(@, "removed-first")]
            ELSE st

\* await new Promise(...), up to the await: the timer of the next step is set
Mutations_Schedule ==
    /\ In("mutations", "start")
    /\ loop' = SetTimeout(loop, MutationSteps[mem.step + 1].cb,
                          MutationDelay(MutationSteps[mem.step + 1],
                                        RandomValue(mockRandom, prng)))
    /\ mockRandom' = MockAfterCall(mockRandom)
    /\ prng' = PrngAfterCall(mockRandom, prng)
    /\ pc' = [pc EXCEPT !.at = "await"]
    /\ UNCHANGED <<tz, mem, fakeTimers, outcome>>
    /\ UNCHANGED <<pairVars, configVars>>

\* the timer fires: the step's mutation, and the promise is resolved
Mutations_Fire ==
    /\ In("mutations", "await")
    /\ ~mem.resolved
    /\ loop.timers # {}
    /\ loop' = LoopFired(loop)
    /\ mem' = [MutationEffect(NextTimer(loop).cb, mem) EXCEPT !.resolved = TRUE]
    /\ UNCHANGED <<tz, pc, mockRandom, prng, fakeTimers, outcome>>
    /\ UNCHANGED <<pairVars, configVars>>

\* the await returns: the next step follows, or mockObserveMutations returns
Mutations_Resume ==
    /\ In("mutations", "await")
    /\ mem.resolved
    /\ mem' = [mem EXCEPT !.step = @ + 1, !.resolved = FALSE]
    /\ pc' = [pc EXCEPT !.at = IF mem.step + 1 < Len(MutationSteps) THEN "start" ELSE "expect"]
    /\ UNCHANGED <<tz, mockRandom, prng, fakeTimers, outcome>>
    /\ UNCHANGED <<pairVars, configVars, loopVars>>

\* the three expect(mutations).toContain(...) and expect(container.children.length).toBe(1)
Mutations_Expect ==
    /\ In("mutations", "expect")
    /\ SuiteEnd(/\ {"added-first", "added-second", "removed-first"} \subseteq Range(mem.mutations)
                /\ Len(mem.children) = 1)
    /\ UNCHANGED <<tz, mockRandom, prng, fakeTimers>>
    /\ UNCHANGED <<pairVars, configVars, loopVars>>

(***************************************************************************)
(* The tests that start five handlers at once and check from a timer       *)
(* callback 200 ms later.  The test function returns with the timers       *)
(* pending; the event loop then fires them, and the check's callback ends  *)
(* the test: done() when its expects pass, a thrown error when one fails.  *)
(***************************************************************************)
\* the number of clicks / allocations made at once
rapidCount == 5

\* the delay of the timer whose callback checks
rapidCheckDelay == 200

\* 'Memory: ' and 'MB' as characters
MemoryPrefix == <<"M", "e", "m", "o", "r", "y", ":", " ">>

MB == <<"M", "B">>

\* str.includes(sub) / expect(str).toContain(sub)
Contains(str, sub) ==
    \E k \in 0..(Len(str) - Len(sub)) : SubSeq(str, k + 1, k + Len(sub)) = sub

\* Math.random() * 1000000 + 500000 (a whole number for the random values of the model)
AllocationSize(r) == r * (1000000 \div RandDen) + 500000

RECURSIVE SumSizes(_)
\* memoryAllocations.reduce((sum, alloc) => sum + alloc.size, 0)
SumSizes(allocations) ==
    IF allocations = <<>> THEN 0 ELSE Head(allocations).size + SumSizes(Tail(allocations))

\* `Memory: ${Math.round(totalMemory / 1024 / 1024)}MB`
MemoryText(totalMemory) ==
    MemoryPrefix \o toString((2 * totalMemory + 1024 * 1024) \div (2 * 1024 * 1024)) \o MB

(***************************************************************************)
(* flaky-interactions.test.js, TEST 1: "should handle rapid button clicks  *)
(* correctly"                                                              *)
(***************************************************************************)
\* button.click(): handleClick sets its timer
Rapid_Click ==
    /\ In("rapid", "start")
    /\ mem.i < rapidCount
    /\ loop' = SetTimeout(loop, "handleClick", HandlerDelay(RandomValue(mockRandom, prng)))
    /\ mockRandom' = MockAfterCall(mockRandom)
    /\ prng' = PrngAfterCall(mockRandom, prng)
    /\ mem' = [mem EXCEPT !.i = @ + 1]
    /\ UNCHANGED <<tz, pc, fakeTimers, outcome>>
    /\ UNCHANGED <<pairVars, configVars>>

\* setTimeout(() => { ...expect...; done() }, 200); the test function returns
Rapid_ScheduleCheck ==
    /\ In("rapid", "start")
    /\ mem.i = rapidCount
    /\ loop' = SetTimeout(loop, "check", RealDelay(rapidCheckDelay))
    /\ pc' = [pc EXCEPT !.at = "loop"]
    /\ UNCHANGED <<tz, mem, mockRandom, prng, fakeTimers, outcome>>
    /\ UNCHANGED <<pairVars, configVars>>

\* the event loop fires the next timer: a click is counted and displayed, or the
\* check's callback is entered
Rapid_Fire ==
    /\ In("rapid", "loop")
    /\ loop.timers # {}
    /\ loop' = LoopFired(loop)
    /\ IF NextTimer(loop).cb = "handleClick"
       THEN /\ mem' = [mem EXCEPT !.clickCount = @ + 1,
                                  !.counterText = toString(mem.clickCount + 1)]
            /\ UNCHANGED pc
       ELSE /\ pc' = [pc EXCEPT !.at = "check"]
            /\ UNCHANGED mem
    /\ UNCHANGED <<tz, mockRandom, prng, fakeTimers, outcome>>
    /\ UNCHANGED <<pairVars, configVars>>

\* expect(clickCount).toBe(5); expect(counter.textContent).toBe('5'); done()
Rapid_Check ==
    /\ In("rapid", "check")
    /\ SuiteEnd(mem.clickCount = 5 /\ mem.counterText = <<"5">>)
    /\ UNCHANGED <<tz, mockRandom, prng, fakeTimers>>
    /\ UNCHANGED <<pairVars, configVars, loopVars>>

(***************************************************************************)
(* flaky-performance.test.js, TEST 3: "should track memory usage           *)
(* correctly"                                                              *)
(***************************************************************************)
\* allocateMemory(Math.random() * 1000000 + 500000): three calls of Math.random, for
\* the size, the id and the delay of the timer
Memory_Allocate ==
    /\ In("memory", "start")
    /\ mem.i < rapidCount
    /\ LET r1 == RandomValue(mockRandom, prng)
           m1 == MockAfterCall(mockRandom)
           g1 == PrngAfterCall(mockRandom, prng)
           r2 == RandomValue(m1, g1)
           m2 == MockAfterCall(m1)
           g2 == PrngAfterCall(m1, g1)
           r3 == RandomValue(m2, g2)
       IN  /\ mem' = [mem EXCEPT !.i = @ + 1,
                                 !.memoryAllocations =
                                     Append(@, [id |-> r2, size |-> AllocationSize(r1),
                                                timestamp |-> loop.now])]
           /\ loop' = SetTimeout(loop, "track", HandlerDelay(r3))
           /\ mockRandom' = MockAfterCall(m2)
           /\ prng' = PrngAfterCall(m2, g2)
    /\ UNCHANGED <<tz, pc, fakeTimers, outcome>>
    /\ UNCHANGED <<pairVars, configVars>>

\* setTimeout(() => { ...expect...; done() }, 200); the test function returns
Memory_ScheduleCheck ==
    /\ In("memory", "start")
    /\ mem.i = rapidCount
    /\ loop' = SetTimeout(loop, "check", RealDelay(rapidCheckDelay))
    /\ pc' = [pc EXCEPT !.at = "loop"]
    /\ UNCHANGED <<tz, mem, mockRandom, prng, fakeTimers, outcome>>
    /\ UNCHANGED <<pairVars, configVars>>

\* the event loop fires the next timer: the memory in use is displayed and the
\* check counted, or the check's callback is entered
Memory_Fire ==
    /\ In("memory", "loop")
    /\ loop.timers # {}
    /\ ~IsStale(NextTimer(loop).cb)
    /\ loop' = LoopFired(loop)
    /\ IF NextTimer(loop).cb = "track"
       THEN /\ mem' = [mem EXCEPT !.memoryText = MemoryText(SumSizes(mem.memoryAllocations)),
                                  !.memoryChecks = @ + 1]
            /\ UNCHANGED pc
       ELSE /\ pc' = [pc EXCEPT !.at = "check"]
            /\ UNCHANGED mem
    /\ UNCHANGED <<tz, mockRandom, prng, fakeTimers, outcome>>
    /\ UNCHANGED <<pairVars, configVars>>

\* expect(memoryAllocations.length).toBe(5); expect(memoryChecks).toBe(5);
\* expect(memoryDisplay.textContent).toContain('MB'); done()
Memory_Check ==
    /\ In("memory", "check")
    /\ SuiteEnd(/\ Len(mem.memoryAllocations) = 5
                /\ mem.memoryChecks = 5
                /\ Contains(mem.memoryText, MB))
    /\ UNCHANGED <<tz, mockRandom, prng, fakeTimers>>
    /\ UNCHANGED <<pairVars, configVars, loopVars>>

(***************************************************************************)
(* flaky-state.test.js, TEST 1: "should handle counter increments          *)
(* correctly"                                                              *)
(***************************************************************************)
\* incrementBtn.click(): increment counts itself pending and sets its timer
Counter_Click ==
    /\ In("counter", "start")
    /\ mem.i < rapidCount
    /\ loop' = SetTimeout(loop, "increment", HandlerDelay(RandomValue(mockRandom, prng)))
    /\ mockRandom' = MockAfterCall(mockRandom)
    /\ prng' = PrngAfterCall(mockRandom, prng)
    /\ mem' = [mem EXCEPT !.i = @ + 1, !.pendingIncrements = @ + 1]
    /\ UNCHANGED <<tz, pc, fakeTimers, outcome>>
    /\ UNCHANGED <<pairVars, configVars>>

\* setTimeout(() => { ...expect...; done() }, 200); the test function returns
Counter_ScheduleCheck ==
    /\ In("counter", "start")
    /\ mem.i = rapidCount
    /\ loop' = SetTimeout(loop, "check", RealDelay(rapidCheckDelay))
    /\ pc' = [pc EXCEPT !.at = "loop"]
    /\ UNCHANGED <<tz, mem, mockRandom, prng, fakeTimers, outcome>>
    /\ UNCHANGED <<pairVars, configVars>>

incrementCallbackStaysPending(st) ==
    [st EXCEPT !.counter = @ + 1, !.displayText = toString(st.counter + 1)]

\* the timer callback of increment: counter++; display.textContent = counter.toString();
\* pendingIncrements--
incrementCallback(st) ==
    [st EXCEPT !.counter = @ + 1,
               !.displayText = toString(st.counter + 1),
               !.pendingIncrements = @ - 1]

\* the event loop fires the next timer: an increment is applied and displayed, or
\* the check's callback is entered
Counter_Fire ==
    /\ In("counter", "loop")
    /\ loop.timers # {}
    /\ loop' = LoopFired(loop)
    /\ IF NextTimer(loop).cb = "increment"
       THEN /\ mem' = incrementCallback(mem)
            /\ UNCHANGED pc
       ELSE /\ pc' = [pc EXCEPT !.at = "check"]
            /\ UNCHANGED mem
    /\ UNCHANGED <<tz, mockRandom, prng, fakeTimers, outcome>>
    /\ UNCHANGED <<pairVars, configVars>>

\* expect(counter).toBe(5); expect(pendingIncrements).toBe(0);
\* expect(display.textContent).toBe("5"); done()
Counter_Check ==
    /\ In("counter", "check")
    /\ SuiteEnd(mem.counter = 5 /\ mem.pendingIncrements = 0 /\ mem.displayText = <<"5">>)
    /\ UNCHANGED <<tz, mockRandom, prng, fakeTimers>>
    /\ UNCHANGED <<pairVars, configVars, loopVars>>

(***************************************************************************)
(* flaky-interactions.test.js, TEST 2: "should detect double-clicks        *)
(* correctly".  Date.now() is the clock of the event loop.                 *)
(***************************************************************************)
doubleClickThresholdShort == 300 - 100

doubleClickThreshold == 300

singleClickDelay == 350

doubleCheckDelay == 400

\* Math.random() * 200 + 100, as setTimeout takes it
GapDelay(r) == RealDelay((r * 200) \div RandDen + 100)

\* handleClick: timeDiff < 300
isDoubleClick(st, lp) == lp.now - st.lastClickTime < doubleClickThreshold

\* handleClick: the locals after the click
clickLocals(st, lp) ==
    IF isDoubleClick(st, lp)
    THEN [st EXCEPT !.doubleClicks = @ + 1, !.lastClickTime = lp.now]
    ELSE [st EXCEPT !.clickTimeout = lp.nextId, !.lastClickTime = lp.now]

\* handleClick: the timers after the click
clickTimers(st, lp) ==
    IF isDoubleClick(st, lp)
    THEN ClearTimeout(lp, st.clickTimeout)
    ELSE SetTimeout(lp, "single", RealDelay(singleClickDelay))

\* simulateDoubleClick(): the first click, and the timer of the second one
Double_Simulate ==
    /\ In("double", "start")
    /\ mem' = clickLocals(mem, loop)
    /\ loop' = SetTimeout(clickTimers(mem, loop), "click", GapDelay(RandomValue(mockRandom, prng)))
    /\ mockRandom' = MockAfterCall(mockRandom)
    /\ prng' = PrngAfterCall(mockRandom, prng)
    /\ pc' = [pc EXCEPT !.at = "scheduleCheck"]
    /\ UNCHANGED <<tz, fakeTimers, outcome>>
    /\ UNCHANGED <<pairVars, configVars>>

\* setTimeout(() => { ...expect...; done() }, 400); the test function returns
Double_ScheduleCheck ==
    /\ In("double", "scheduleCheck")
    /\ loop' = SetTimeout(loop, "check", RealDelay(doubleCheckDelay))
    /\ pc' = [pc EXCEPT !.at = "loop"]
    /\ UNCHANGED <<tz, mem, mockRandom, prng, fakeTimers, outcome>>
    /\ UNCHANGED <<pairVars, configVars>>

\* the event loop fires the next timer: the second click, a single click counted,
\* or the check's callback entered
Double_Fire ==
    /\ In("double", "loop")
    /\ loop.timers # {}
    /\ LET cb == NextTimer(loop).cb
           fired == LoopFired(loop)
       IN  CASE cb = "click" ->
                  /\ mem' = clickLocals(mem, fired)
                  /\ loop' = clickTimers(mem, fired)
                  /\ UNCHANGED pc
             [] cb = "single" ->
                  /\ mem' = [mem EXCEPT !.singleClicks = @ + 1]
                  /\ loop' = fired
                  /\ UNCHANGED pc
             [] OTHER ->
                  /\ pc' = [pc EXCEPT !.at = "check"]
                  /\ loop' = fired
                  /\ UNCHANGED mem
    /\ UNCHANGED <<tz, mockRandom, prng, fakeTimers, outcome>>
    /\ UNCHANGED <<pairVars, configVars>>

\* expect(doubleClicks).toBe(1); expect(singleClicks).toBe(0); done()
Double_Check ==
    /\ In("double", "check")
    /\ SuiteEnd(mem.doubleClicks = 1 /\ mem.singleClicks = 0)
    /\ UNCHANGED <<tz, mockRandom, prng, fakeTimers>>
    /\ UNCHANGED <<pairVars, configVars, loopVars>>

\* Math.random() * span + base, as setTimeout takes it
RandomSpan(r, span, base) == RealDelay((r * span) \div RandDen + base)

\* handleHover: the timer of the mouseenter listener
handleHover(lp, r) == SetTimeout(lp, "hover_hovered", HandlerDelay(r))

\* handleLeave: the timer of the mouseleave listener
handleLeave(lp, r) == SetTimeout(lp, "hover_left", RandomSpan(r, 80, 30))

totalItems == 100

\* Math.floor(Math.random() * 10) + 5
batchSizeOf(r) == (r * 10) \div RandDen + 5

\* processBatch(): the size of the batch and the delay are drawn, and the timer set;
\* lp.closure holds processedItems and the size of the batch of the pending timer
processBatch(lp, m, g) ==
    SetTimeout([lp EXCEPT !.closure.batchSize = batchSizeOf(RandomValue(m, g))],
               "data_batch",
               HandlerDelay(RandomValue(MockAfterCall(m), PrngAfterCall(m, g))))

(***************************************************************************)
(* A callback still pending when its test has ended runs in the event loop *)
(* of a later test of the file: it changes the variables of its own        *)
(* closure and the elements of the document of its own test, which nothing *)
(* reads any more, and it may call Math.random and set further timers.     *)
(***************************************************************************)
Stale_Fire ==
    /\ pc.at = "loop"
    /\ loop.timers # {}
    /\ IsStale(NextTimer(loop).cb)
    /\ LET cb == NextTimer(loop).cb
           fired == LoopFired(loop)
           processed == [fired EXCEPT !.closure.processedItems = @ + fired.closure.batchSize]
       IN  CASE cb = "hover_enter" ->
                  /\ loop' = handleHover(fired, RandomValue(mockRandom, prng))
                  /\ mockRandom' = MockAfterCall(mockRandom)
                  /\ prng' = PrngAfterCall(mockRandom, prng)
             [] cb = "data_batch" /\ processed.closure.processedItems < totalItems ->
                  /\ loop' = processBatch(processed, mockRandom, prng)
                  /\ mockRandom' = MockAfterCall(MockAfterCall(mockRandom))
                  /\ prng' = PrngAfterCall(MockAfterCall(mockRandom),
                                           PrngAfterCall(mockRandom, prng))
             [] cb = "data_batch" /\ processed.closure.processedItems >= totalItems ->
                  /\ loop' = processed
                  /\ UNCHANGED <<mockRandom, prng>>
             [] OTHER ->
                  /\ loop' = fired
                  /\ UNCHANGED <<mockRandom, prng>>
    /\ UNCHANGED <<tz, pc, mem, fakeTimers, outcome>>
    /\ UNCHANGED <<pairVars, configVars>>

(***************************************************************************)
(* flaky-interactions.test.js, TEST 3: "should validate input with proper  *)
(* debouncing"                                                             *)
(***************************************************************************)
\* the values typed, one character more each time
TypedValues == << <<"a">>, <<"a", "b">>, <<"a", "b", "c">>, <<"a", "b", "c", "d">> >>

\* input.value = ...; input.dispatchEvent(new Event('input')): the listener calls
\* debouncedValidation(e.target.value), which restarts the timer
inputLocals(st, lp) ==
    [st EXCEPT !.typed = @ + 1,
               !.value = TypedValues[st.typed + 1],
               !.captured = TypedValues[st.typed + 1],
               !.timeout = lp.nextId]

inputTimers(st, lp, r) ==
    SetTimeout(ClearTimeout(lp, st.timeout), "input_validate", RandomSpan(r, 150, 100))

\* the test function: rapidTyping() types 'a' and sets the timers of the three other
\* values; setTimeout(() => { ...expect...; done() }, 200)
Input_Start ==
    /\ In("input", "start")
    /\ mem' = inputLocals(mem, loop)
    /\ loop' = SetTimeout(
                 SetTimeout(
                   SetTimeout(
                     SetTimeout(inputTimers(mem, loop, RandomValue(mockRandom, prng)),
                                "input_type", RealDelay(50)),
                     "input_type", RealDelay(100)),
                   "input_type", RealDelay(150)),
                 "check", RealDelay(200))
    /\ mockRandom' = MockAfterCall(mockRandom)
    /\ prng' = PrngAfterCall(mockRandom, prng)
    /\ pc' = [pc EXCEPT !.at = "loop"]
    /\ UNCHANGED <<tz, fakeTimers, outcome>>
    /\ UNCHANGED <<pairVars, configVars>>

\* the event loop fires the next timer: a value is typed, the validation runs, or
\* the check's callback is entered
Input_Fire ==
    /\ In("input", "loop")
    /\ loop.timers # {}
    /\ ~IsStale(NextTimer(loop).cb)
    /\ LET cb == NextTimer(loop).cb
           fired == LoopFired(loop)
       IN  CASE cb = "input_type" ->
                  /\ mem' = inputLocals(mem, fired)
                  /\ loop' = inputTimers(mem, fired, RandomValue(mockRandom, prng))
                  /\ mockRandom' = MockAfterCall(mockRandom)
                  /\ prng' = PrngAfterCall(mockRandom, prng)
                  /\ UNCHANGED pc
             [] cb = "input_validate" ->
                  /\ mem' = [mem EXCEPT !.validationCount = @ + 1,
                                        !.display = IF Len(mem.captured) > 3
                                                    THEN "Valid" ELSE "Invalid"]
                  /\ loop' = fired
                  /\ UNCHANGED <<pc, mockRandom, prng>>
             [] OTHER ->
                  /\ pc' = [pc EXCEPT !.at = "check"]
                  /\ loop' = fired
                  /\ UNCHANGED <<mem, mockRandom, prng>>
    /\ UNCHANGED <<tz, fakeTimers, outcome>>
    /\ UNCHANGED <<pairVars, configVars>>

\* expect(validationCount).toBe(1); expect(display.textContent).toBe('Valid'); done()
Input_Check ==
    /\ In("input", "check")
    /\ SuiteEnd(mem.validationCount = 1 /\ mem.display = "Valid")
    /\ UNCHANGED <<tz, mockRandom, prng, fakeTimers>>
    /\ UNCHANGED <<pairVars, configVars, loopVars>>


(***************************************************************************)
(* flaky-interactions.test.js, TEST 4: "should handle hover states         *)
(* correctly"                                                              *)
(***************************************************************************)
\* the test function: simulateHover() dispatches mouseenter and sets the timers of
\* the mouseleave and of the second mouseenter; setTimeout(() => { ...expect...;
\* done() }, 150)
Hover_Start ==
    /\ In("hover", "start")
    /\ loop' = SetTimeout(
                 SetTimeout(
                   SetTimeout(handleHover(loop, RandomValue(mockRandom, prng)),
                              "hover_leave", RealDelay(100)),
                   "hover_enter", RealDelay(200)),
                 "check", RealDelay(150))
    /\ mockRandom' = MockAfterCall(mockRandom)
    /\ prng' = PrngAfterCall(mockRandom, prng)
    /\ pc' = [pc EXCEPT !.at = "loop"]
    /\ UNCHANGED <<tz, mem, fakeTimers, outcome>>
    /\ UNCHANGED <<pairVars, configVars>>

\* the event loop fires the next timer: an event is dispatched and its listener sets
\* its timer, a listener's timer changes the status, or the check's callback is
\* entered
Hover_Fire ==
    /\ In("hover", "loop")
    /\ loop.timers # {}
    /\ ~IsStale(NextTimer(loop).cb)
    /\ LET cb == NextTimer(loop).cb
           fired == LoopFired(loop)
       IN  CASE cb \in {"hover_leave", "hover_enter"} ->
                  /\ loop' = IF cb = "hover_leave"
                             THEN handleLeave(fired, RandomValue(mockRandom, prng))
                             ELSE handleHover(fired, RandomValue(mockRandom, prng))
                  /\ mockRandom' = MockAfterCall(mockRandom)
                  /\ prng' = PrngAfterCall(mockRandom, prng)
                  /\ UNCHANGED <<pc, mem>>
             [] cb = "hover_hovered" ->
                  /\ mem' = [mem EXCEPT !.hoverCount = @ + 1, !.status = "Hovered"]
                  /\ loop' = fired
                  /\ UNCHANGED <<pc, mockRandom, prng>>
             [] cb = "hover_left" ->
                  /\ mem' = [mem EXCEPT !.status = "Not hovered"]
                  /\ loop' = fired
                  /\ UNCHANGED <<pc, mockRandom, prng>>
             [] OTHER ->
                  /\ pc' = [pc EXCEPT !.at = "check"]
                  /\ loop' = fired
                  /\ UNCHANGED <<mem, mockRandom, prng>>
    /\ UNCHANGED <<tz, fakeTimers, outcome>>
    /\ UNCHANGED <<pairVars, configVars>>

\* expect(hoverCount).toBeGreaterThan(0); expect(status.textContent).toBe('Hovered');
\* done()
Hover_Check ==
    /\ In("hover", "check")
    /\ SuiteEnd(mem.hoverCount > 0 /\ mem.status = "Hovered")
    /\ UNCHANGED <<tz, mockRandom, prng, fakeTimers>>
    /\ UNCHANGED <<pairVars, configVars, loopVars>>


(***************************************************************************)
(* flaky-interactions.test.js, TEST 5: "should handle drag and drop        *)
(* correctly".  It is the last test of the file: what is pending when it   *)
(* ends is discarded with the environment of the file.                     *)
(***************************************************************************)
\* the test function: simulateDragDrop() dispatches dragstart and sets the timers of
\* dragover, drop and dragend; setTimeout(() => { ...expect...; done() }, 250)
Drag_Start ==
    /\ In("drag", "start")
    /\ loop' = SetTimeout(
                 SetTimeout(
                   SetTimeout(
                     SetTimeout(
                       SetTimeout(loop, "drag_started",
                                  HandlerDelay(RandomValue(mockRandom, prng))),
                       "drag_over", RealDelay(100)),
                     "drag_drop", RealDelay(200)),
                   "drag_end", RealDelay(300)),
                 "check", RealDelay(250))
    /\ mockRandom' = MockAfterCall(mockRandom)
    /\ prng' = PrngAfterCall(mockRandom, prng)
    /\ pc' = [pc EXCEPT !.at = "loop"]
    /\ UNCHANGED <<tz, mem, fakeTimers, outcome>>
    /\ UNCHANGED <<pairVars, configVars>>

\* the event loop fires the next timer: an event is dispatched (dragover has no
\* listener; handleDrop and handleDragEnd set their timers), a listener's timer
\* changes the state, or the check's callback is entered
Drag_Fire ==
    /\ In("drag", "loop")
    /\ loop.timers # {}
    /\ ~IsStale(NextTimer(loop).cb)
    /\ LET cb == NextTimer(loop).cb
           fired == LoopFired(loop)
       IN  CASE cb \in {"drag_drop", "drag_end"} ->
                  /\ loop' = IF cb = "drag_drop"
                             THEN SetTimeout(fired, "drag_dropped",
                                             RandomSpan(RandomValue(mockRandom, prng), 120, 60))
                             ELSE SetTimeout(fired, "drag_ended",
                                             RandomSpan(RandomValue(mockRandom, prng), 80, 30))
                  /\ mockRandom' = MockAfterCall(mockRandom)
                  /\ prng' = PrngAfterCall(mockRandom, prng)
                  /\ UNCHANGED <<pc, mem>>
             [] cb \in {"drag_over", "drag_started", "drag_dropped", "drag_ended"} ->
                  /\ mem' = CASE cb = "drag_started" ->
                                   [mem EXCEPT !.dragStarted = TRUE, !.status = "Dragging"]
                              [] cb = "drag_dropped" ->
                                   [mem EXCEPT !.dropCompleted = TRUE, !.status = "Dropped"]
                              [] cb = "drag_ended" -> [mem EXCEPT !.dragEnded = TRUE]
                              [] OTHER -> mem
                  /\ loop' = fired
                  /\ UNCHANGED <<pc, mockRandom, prng>>
             [] OTHER ->
                  /\ pc' = [pc EXCEPT !.at = "check"]
                  /\ loop' = fired
                  /\ UNCHANGED <<mem, mockRandom, prng>>
    /\ UNCHANGED <<tz, fakeTimers, outcome>>
    /\ UNCHANGED <<pairVars, configVars>>

\* expect(dragStarted).toBe(true); expect(dropCompleted).toBe(true);
\* expect(dragEnded).toBe(true); expect(status.textContent).toBe('Dropped'); done()
Drag_Check ==
    /\ In("drag", "check")
    /\ SuiteEnd(/\ mem.dragStarted
                /\ mem.dropCompleted
                /\ mem.dragEnded
                /\ mem.status = "Dropped")
    /\ UNCHANGED <<tz, mockRandom, prng, fakeTimers>>
    /\ UNCHANGED <<pairVars, configVars, loopVars>>


(***************************************************************************)
(* flaky-state.test.js, TEST 2: "should maintain state history correctly"  *)
(***************************************************************************)
\* a number as join and toString write it
numberText(n) == IF n < 0 THEN <<"-">> \o toString(0 - n) ELSE toString(n)

RECURSIVE join(_)
\* stateHistory.join(", ")
join(arr) ==
    IF arr = <<>> THEN <<>>
    ELSE IF Len(arr) = 1 THEN numberText(arr[1])
    ELSE numberText(Head(arr)) \o <<",", " ">> \o join(Tail(arr))

\* the buttons clicked, in the order of rapidChanges()
HistoryClicks == <<"increment", "decrement", "increment", "reset">>

\* the listeners: updateState(currentState + 1), updateState(currentState - 1),
\* updateState(0), the argument computed as the button is clicked
newStateOf(button, currentState) ==
    CASE button = "increment" -> currentState + 1
      [] button = "decrement" -> currentState - 1
      [] OTHER -> 0

\* a click: updateState remembers newState for its timer
historyLocals(st, lp) ==
    [st EXCEPT !.clicked = @ + 1,
               !.pending = @ \cup {[id |-> lp.nextId,
                                    newState |-> newStateOf(HistoryClicks[st.clicked + 1],
                                                            st.currentState)]}]

\* updateState's timer: the current state is pushed, then replaced
historyApplied(st, id) ==
    LET p == CHOOSE q \in st.pending : q.id = id
    IN  [st EXCEPT !.stateHistory = Append(@, st.currentState),
                   !.currentState = p.newState,
                   !.historyText = join(Append(st.stateHistory, st.currentState)),
                   !.pending = @ \ {p}]

\* the test function: rapidChanges() clicks increment and sets the timers of the
\* three other clicks; setTimeout(() => { ...expect...; done() }, 180)
History_Start ==
    /\ In("history", "start")
    /\ ~fakeTimers.enabled
    /\ mem' = historyLocals(mem, loop)
    /\ loop' = SetTimeout(
                 SetTimeout(
                   SetTimeout(
                     SetTimeout(
                       SetTimeout(loop, "history_update",
                                  RandomSpan(RandomValue(mockRandom, prng), 80, 40)),
                       "history_click", RealDelay(50)),
                     "history_click", RealDelay(100)),
                   "history_click", RealDelay(150)),
                 "check", RealDelay(180))
    /\ mockRandom' = MockAfterCall(mockRandom)
    /\ prng' = PrngAfterCall(mockRandom, prng)
    /\ pc' = [pc EXCEPT !.at = "loop"]
    /\ UNCHANGED <<tz, fakeTimers, outcome>>
    /\ UNCHANGED <<pairVars, configVars>>

\* the event loop fires the next timer: a button is clicked, an update is applied,
\* or the check's callback is entered
History_Fire ==
    /\ In("history", "loop")
    /\ loop.timers # {}
    /\ ~IsStale(NextTimer(loop).cb)
    /\ LET cb == NextTimer(loop).cb
           fired == LoopFired(loop)
       IN  CASE cb = "history_click" ->
                  /\ mem' = historyLocals(mem, fired)
                  /\ loop' = SetTimeout(fired, "history_update",
                                        RandomSpan(RandomValue(mockRandom, prng), 80, 40))
                  /\ mockRandom' = MockAfterCall(mockRandom)
                  /\ prng' = PrngAfterCall(mockRandom, prng)
                  /\ UNCHANGED pc
             [] cb = "history_update" ->
                  /\ mem' = historyApplied(mem, NextTimer(loop).id)
                  /\ loop' = fired
                  /\ UNCHANGED <<pc, mockRandom, prng>>
             [] OTHER ->
                  /\ pc' = [pc EXCEPT !.at = "check"]
                  /\ loop' = fired
                  /\ UNCHANGED <<mem, mockRandom, prng>>
    /\ UNCHANGED <<tz, fakeTimers, outcome>>
    /\ UNCHANGED <<pairVars, configVars>>

\* expect(stateHistory.length).toBe(3); expect(currentState).toBe(0);
\* expect(history.textContent).toContain("0"); done()
History_Check ==
    /\ In("history", "check")
    /\ SuiteEnd(/\ Len(mem.stateHistory) = 3
                /\ mem.currentState = 0
                /\ Contains(mem.historyText, <<"0">>))
    /\ UNCHANGED <<tz, mockRandom, prng, fakeTimers>>
    /\ UNCHANGED <<pairVars, configVars, loopVars>>


(***************************************************************************)
(* flaky-state.test.js, TEST 4: "should validate form state correctly"     *)
(***************************************************************************)
JohnDoe == <<"J", "o", "h", "n", " ", "D", "o", "e">>

JohnAtExample ==
    <<"j", "o", "h", "n", "@", "e", "x", "a", "m", "p", "l", "e", ".", "c", "o", "m">>

\* updateFormData: both fields are read from the inputs
updateFormData(st) ==
    [st EXCEPT !.formData = [name |-> st.nameValue, email |-> st.emailValue]]

\* validateForm's timer: formData.name.length > 0 && formData.email.includes("@")
validateForm(st) ==
    [st EXCEPT !.validationCount = @ + 1,
               !.status = IF Len(st.formData.name) > 0 /\ Contains(st.formData.email, <<"@">>)
                          THEN "Valid" ELSE "Invalid"]

\* the test function: fillAndSubmit() enters the name and sets the timers of the
\* e-mail address and of the click on submit; setTimeout(() => { ...expect...;
\* done() }, 120)
Form_Start ==
    /\ In("form", "start")
    /\ ~fakeTimers.enabled
    /\ mem' = updateFormData([mem EXCEPT !.nameValue = JohnDoe])
    /\ loop' = SetTimeout(
                 SetTimeout(
                   SetTimeout(loop, "form_email", RealDelay(50)),
                   "form_submit", RealDelay(100)),
                 "check", RealDelay(120))
    /\ pc' = [pc EXCEPT !.at = "loop"]
    /\ UNCHANGED <<tz, mockRandom, prng, fakeTimers, outcome>>
    /\ UNCHANGED <<pairVars, configVars>>

\* the event loop fires the next timer: the e-mail address is entered, submit is
\* clicked and validateForm sets its timer, the validation runs, or the check's
\* callback is entered
Form_Fire ==
    /\ In("form", "loop")
    /\ loop.timers # {}
    /\ ~IsStale(NextTimer(loop).cb)
    /\ LET cb == NextTimer(loop).cb
           fired == LoopFired(loop)
       IN  CASE cb = "form_submit" ->
                  /\ loop' = SetTimeout(fired, "form_validate",
                                        RandomSpan(RandomValue(mockRandom, prng), 150, 100))
                  /\ mockRandom' = MockAfterCall(mockRandom)
                  /\ prng' = PrngAfterCall(mockRandom, prng)
                  /\ UNCHANGED <<pc, mem>>
             [] cb \in {"form_email", "form_validate"} ->
                  /\ mem' = IF cb = "form_email"
                            THEN updateFormData([mem EXCEPT !.emailValue = JohnAtExample])
                            ELSE validateForm(mem)
                  /\ loop' = fired
                  /\ UNCHANGED <<pc, mockRandom, prng>>
             [] OTHER ->
                  /\ pc' = [pc EXCEPT !.at = "check"]
                  /\ loop' = fired
                  /\ UNCHANGED <<mem, mockRandom, prng>>
    /\ UNCHANGED <<tz, fakeTimers, outcome>>
    /\ UNCHANGED <<pairVars, configVars>>

\* expect(validationCount).toBe(1); expect(status.textContent).toBe("Valid");
\* expect(formData.name).toBe("John Doe");
\* expect(formData.email).toBe("john@example.com"); done()
Form_Check ==
    /\ In("form", "check")
    /\ SuiteEnd(/\ mem.validationCount = 1
                /\ mem.status = "Valid"
                /\ mem.formData.name = JohnDoe
                /\ mem.formData.email = JohnAtExample)
    /\ UNCHANGED <<tz, mockRandom, prng, fakeTimers>>
    /\ UNCHANGED <<pairVars, configVars, loopVars>>


(***************************************************************************)
(* flaky-state.test.js, TEST 5: "should handle complex state transitions   *)
(* correctly".  It is the last test of the file.                           *)
(***************************************************************************)
\* the buttons clicked, in the order of complexSequence()
TransitionClicks == <<"increment", "increment", "decrement", "increment", "reset">>

transitionStateSkipsHistory(state, action) ==
    [state EXCEPT !.history = IF action = "decrement" THEN @ ELSE Append(@, state.value),
                  !.transitions = @ + 1,
                  !.value = CASE action = "increment" -> @ + 1
                              [] action = "decrement" -> @ - 1
                              [] action = "reset" -> 0
                              [] OTHER -> @]

\* transitionState's timer: the value is pushed, the transition counted and applied
transitionState(state, action) ==
    [state EXCEPT !.history = Append(@, state.value),
                  !.transitions = @ + 1,
                  !.value = CASE action = "increment" -> @ + 1
                              [] action = "decrement" -> @ - 1
                              [] action = "reset" -> 0
                              [] OTHER -> @]

\* the test function: complexSequence() clicks increment and sets the timers of the
\* four other clicks; setTimeout(() => { ...expect...; done() }, 180)
Transitions_Start ==
    /\ In("transitions", "start")
    /\ ~fakeTimers.enabled
    /\ mem' = [mem EXCEPT !.clicked = 1]
    /\ loop' = SetTimeout(
                 SetTimeout(
                   SetTimeout(
                     SetTimeout(
                       SetTimeout(
                         SetTimeout(loop, TransitionClicks[1],
                                    HandlerDelay(RandomValue(mockRandom, prng))),
                         "transitions_click", RealDelay(50)),
                       "transitions_click", RealDelay(100)),
                     "transitions_click", RealDelay(150)),
                   "transitions_click", RealDelay(200)),
                 "check", RealDelay(180))
    /\ mockRandom' = MockAfterCall(mockRandom)
    /\ prng' = PrngAfterCall(mockRandom, prng)
    /\ pc' = [pc EXCEPT !.at = "loop"]
    /\ UNCHANGED <<tz, fakeTimers, outcome>>
    /\ UNCHANGED <<pairVars, configVars>>

\* the event loop fires the next timer: a button is clicked and transitionState sets
\* its timer, a transition is applied and displayed, or the check's callback is
\* entered
Transitions_Fire ==
    /\ In("transitions", "loop")
    /\ loop.timers # {}
    /\ ~IsStale(NextTimer(loop).cb)
    /\ LET cb == NextTimer(loop).cb
           fired == LoopFired(loop)
       IN  CASE cb = "transitions_click" ->
                  /\ mem' = [mem EXCEPT !.clicked = @ + 1]
                  /\ loop' = SetTimeout(fired, TransitionClicks[mem.clicked + 1],
                                        HandlerDelay(RandomValue(mockRandom, prng)))
                  /\ mockRandom' = MockAfterCall(mockRandom)
                  /\ prng' = PrngAfterCall(mockRandom, prng)
                  /\ UNCHANGED pc
             [] cb \in {"increment", "decrement", "reset"} ->
                  /\ mem' = [mem EXCEPT !.state = transitionState(@, cb),
                                        !.displayText =
                                            numberText(transitionState(mem.state, cb).value)]
                  /\ loop' = fired
                  /\ UNCHANGED <<pc, mockRandom, prng>>
             [] OTHER ->
                  /\ pc' = [pc EXCEPT !.at = "check"]
                  /\ loop' = fired
                  /\ UNCHANGED <<mem, mockRandom, prng>>
    /\ UNCHANGED <<tz, fakeTimers, outcome>>
    /\ UNCHANGED <<pairVars, configVars>>

\* expect(state.value).toBe(0); expect(state.transitions).toBe(5);
\* expect(state.history.length).toBe(4); expect(display.textContent).toBe("0"); done()
Transitions_Check ==
    /\ In("transitions", "check")
    /\ SuiteEnd(/\ mem.state.value = 0
                /\ mem.state.transitions = 5
                /\ Len(mem.state.history) = 4
                /\ mem.displayText = <<"0">>)
    /\ UNCHANGED <<tz, mockRandom, prng, fakeTimers>>
    /\ UNCHANGED <<pairVars, configVars, loopVars>>


(***************************************************************************)
(* flaky-performance.test.js, TEST 1: "should load heavy content           *)
(* correctly"                                                              *)
(***************************************************************************)
\* '<div>Heavy content loaded!</div>'
HeavyContentLoaded ==
    <<"<", "d", "i", "v", ">", "H", "e", "a", "v", "y", " ", "c", "o", "n", "t",
      "e", "n", "t", " ", "l", "o", "a", "d", "e", "d", "!", "<", "/", "d", "i",
      "v", ">">>

HeavyContent == <<"H", "e", "a", "v", "y", " ", "c", "o", "n", "t", "e", "n", "t">>

\* loadHeavyContent's timer
heavyLoaded(st) ==
    [st EXCEPT !.loadingCompleted = TRUE, !.display = "none",
               !.innerHTML = HeavyContentLoaded, !.contentLoaded = TRUE]

\* the test function: loadBtn.click() starts loadHeavyContent, which shows the
\* indicator and sets its timer; setTimeout(() => { ...expect...; done() }, 800)
Heavy_Start ==
    /\ In("heavy", "start")
    /\ mem' = [mem EXCEPT !.loadingStarted = TRUE, !.display = "block"]
    /\ loop' = SetTimeout(
                 SetTimeout(loop, "heavy_load",
                            RandomSpan(RandomValue(mockRandom, prng), 2000, 1000)),
                 "check", RealDelay(800))
    /\ mockRandom' = MockAfterCall(mockRandom)
    /\ prng' = PrngAfterCall(mockRandom, prng)
    /\ pc' = [pc EXCEPT !.at = "loop"]
    /\ UNCHANGED <<tz, fakeTimers, outcome>>
    /\ UNCHANGED <<pairVars, configVars>>

\* the event loop fires the next timer: the content is loaded, or the check's
\* callback is entered
Heavy_Fire ==
    /\ In("heavy", "loop")
    /\ loop.timers # {}
    /\ ~IsStale(NextTimer(loop).cb)
    /\ loop' = LoopFired(loop)
    /\ IF NextTimer(loop).cb = "heavy_load"
       THEN /\ mem' = heavyLoaded(mem)
            /\ UNCHANGED pc
       ELSE /\ pc' = [pc EXCEPT !.at = "check"]
            /\ UNCHANGED mem
    /\ UNCHANGED <<tz, mockRandom, prng, fakeTimers, outcome>>
    /\ UNCHANGED <<pairVars, configVars>>

\* expect(loadingStarted).toBe(true); expect(loadingCompleted).toBe(true);
\* expect(contentLoaded).toBe(true); expect(loadingIndicator.style.display).toBe('none');
\* expect(contentArea.innerHTML).toContain('Heavy content'); done()
Heavy_Check ==
    /\ In("heavy", "check")
    /\ SuiteEnd(/\ mem.loadingStarted
                /\ mem.loadingCompleted
                /\ mem.contentLoaded
                /\ mem.display = "none"
                /\ Contains(mem.innerHTML, HeavyContent))
    /\ UNCHANGED <<tz, mockRandom, prng, fakeTimers>>
    /\ UNCHANGED <<pairVars, configVars, loopVars>>


(***************************************************************************)
(* flaky-performance.test.js, TEST 2: "should process large data with      *)
(* progress updates".  processedItems and the size of the pending batch    *)
(* are kept in loop.closure: the batches go on after the test has ended.   *)
(***************************************************************************)
\* `${Math.min((processedItems / totalItems) * 100, 100)}%`, exact at 100
widthOf(processedItems) ==
    toString(IF processedItems >= totalItems THEN 100
             ELSE (processedItems * 100) \div totalItems) \o <<"%">>

\* the test function: processBtn.click() starts processLargeData and its first
\* batch; setTimeout(() => { ...expect...; done() }, 600)
Data_Start ==
    /\ In("data", "start")
    /\ mem' = [mem EXCEPT !.processingStarted = TRUE]
    /\ loop' = SetTimeout(
                 processBatch([loop EXCEPT !.closure.processedItems = 0], mockRandom, prng),
                 "check", RealDelay(600))
    /\ mockRandom' = MockAfterCall(MockAfterCall(mockRandom))
    /\ prng' = PrngAfterCall(MockAfterCall(mockRandom), PrngAfterCall(mockRandom, prng))
    /\ pc' = [pc EXCEPT !.at = "loop"]
    /\ UNCHANGED <<tz, fakeTimers, outcome>>
    /\ UNCHANGED <<pairVars, configVars>>

\* the event loop fires the next timer: a batch is processed and, unless it was the
\* last one, the next one started; or the check's callback is entered
Data_Fire ==
    /\ In("data", "loop")
    /\ loop.timers # {}
    /\ ~IsStale(NextTimer(loop).cb)
    /\ LET cb == NextTimer(loop).cb
           fired == LoopFired(loop)
           processed == [fired EXCEPT !.closure.processedItems = @ + fired.closure.batchSize]
           done == processed.closure.processedItems >= totalItems
       IN  CASE cb = "data_batch" ->
                  /\ mem' = [mem EXCEPT !.progressUpdates = @ + 1,
                                        !.width = widthOf(processed.closure.processedItems),
                                        !.processingCompleted = done]
                  /\ IF done
                     THEN /\ loop' = processed
                          /\ UNCHANGED <<mockRandom, prng>>
                     ELSE /\ loop' = processBatch(processed, mockRandom, prng)
                          /\ mockRandom' = MockAfterCall(MockAfterCall(mockRandom))
                          /\ prng' = PrngAfterCall(MockAfterCall(mockRandom),
                                                   PrngAfterCall(mockRandom, prng))
                  /\ UNCHANGED pc
             [] OTHER ->
                  /\ pc' = [pc EXCEPT !.at = "check"]
                  /\ loop' = fired
                  /\ UNCHANGED <<mem, mockRandom, prng>>
    /\ UNCHANGED <<tz, fakeTimers, outcome>>
    /\ UNCHANGED <<pairVars, configVars>>

\* expect(processingStarted).toBe(true); expect(processingCompleted).toBe(true);
\* expect(progressUpdates).toBeGreaterThan(5);
\* expect(progressFill.style.width).toBe('100%'); done()
Data_Check ==
    /\ In("data", "check")
    /\ SuiteEnd(/\ mem.processingStarted
                /\ mem.processingCompleted
                /\ mem.progressUpdates > 5
                /\ mem.width = <<"1", "0", "0", "%">>)
    /\ UNCHANGED <<tz, mockRandom, prng, fakeTimers>>
    /\ UNCHANGED <<pairVars, configVars, loopVars>>


(***************************************************************************)
(* flaky-performance.test.js, TEST 5: "should cleanup resources            *)
(* correctly".  It is the last test of the file.  The children of          *)
(* #content-area are a sequence of elements.                               *)
(***************************************************************************)
\* createResource's timer: the resource is counted, created and appended
resourceCreated(st) ==
    [st EXCEPT !.resourcesCreated = @ + 1,
               !.children =
                   appendChild(@, [className |-> "resource",
                                   textContent |-> <<"R", "e", "s", "o", "u", "r", "c", "e", " ">>
                                                   \o toString(st.resourcesCreated + 1)])]

\* cleanupResources' timer: every '.resource' element is removed and counted
resourcesCleaned(st) ==
    [st EXCEPT !.resourcesCleaned = @ + Len(querySelector(st.children, "resource")),
               !.children = SelectSeq(@, LAMBDA element : element.className # "resource"),
               !.cleanupCompleted = TRUE]

\* the test function: createAndCleanup() runs up to its first await, in
\* createResource(); setTimeout(() => { ...expect...; done() }, 400)
Cleanup_Start ==
    /\ In("cleanup", "start")
    /\ loop' = SetTimeout(
                 SetTimeout(loop, "cleanup_create",
                            HandlerDelay(RandomValue(mockRandom, prng))),
                 "check", RealDelay(400))
    /\ mockRandom' = MockAfterCall(mockRandom)
    /\ prng' = PrngAfterCall(mockRandom, prng)
    /\ pc' = [pc EXCEPT !.at = "loop"]
    /\ UNCHANGED <<tz, mem, fakeTimers, outcome>>
    /\ UNCHANGED <<pairVars, configVars>>

\* the event loop fires the next timer: a resource is created and createAndCleanup
\* resumes, creating the next one or, after the third, starting the cleanup; the
\* cleanup runs; or the check's callback is entered
Cleanup_Fire ==
    /\ In("cleanup", "loop")
    /\ loop.timers # {}
    /\ ~IsStale(NextTimer(loop).cb)
    /\ LET cb == NextTimer(loop).cb
           fired == LoopFired(loop)
       IN  CASE cb = "cleanup_create" ->
                  /\ mem' = resourceCreated(mem)
                  /\ loop' = IF mem.resourcesCreated + 1 < 3
                             THEN SetTimeout(fired, "cleanup_create",
                                             HandlerDelay(RandomValue(mockRandom, prng)))
                             ELSE SetTimeout(fired, "cleanup_run",
                                             RandomSpan(RandomValue(mockRandom, prng), 150, 100))
                  /\ mockRandom' = MockAfterCall(mockRandom)
                  /\ prng' = PrngAfterCall(mockRandom, prng)
                  /\ UNCHANGED pc
             [] cb = "cleanup_run" ->
                  /\ mem' = resourcesCleaned(mem)
                  /\ loop' = fired
                  /\ UNCHANGED <<pc, mockRandom, prng>>
             [] OTHER ->
                  /\ pc' = [pc EXCEPT !.at = "check"]
                  /\ loop' = fired
                  /\ UNCHANGED <<mem, mockRandom, prng>>
    /\ UNCHANGED <<tz, fakeTimers, outcome>>
    /\ UNCHANGED <<pairVars, configVars>>

\* expect(resourcesCreated).toBe(3); expect(resourcesCleaned).toBe(3);
\* expect(cleanupCompleted).toBe(true);
\* expect(contentArea.querySelectorAll('.resource')).toHaveLength(0); done()
Cleanup_Check ==
    /\ In("cleanup", "check")
    /\ SuiteEnd(/\ mem.resourcesCreated = 3
                /\ mem.resourcesCleaned = 3
                /\ mem.cleanupCompleted
                /\ Len(querySelector(mem.children, "resource")) = 0)
    /\ UNCHANGED <<tz, mockRandom, prng, fakeTimers>>
    /\ UNCHANGED <<pairVars, configVars, loopVars>>


(***************************************************************************)
(* The examples of the testing guide (SpecGuide): the fixed debounce test  *)
(* and waitForElement, each run on the real event loop of a fresh          *)
(* environment.                                                            *)
(***************************************************************************)
GuideOrder == <<"debounced", "waitFor">>

Example == IF pc.test \in DOMAIN GuideOrder THEN GuideOrder[pc.test] ELSE "none"

InGuide(t, a) == Example = t /\ pc.at = a

\* the selector as the test passes it: '.target'
targetSelector == <<".", "t", "a", "r", "g", "e", "t">>

GuideLocals(t) ==
    CASE t = "debounced" -> [eventCount |-> 0, timeout |-> 0]
      [] t = "waitFor" ->
            [selector |-> targetSelector, timeout |-> 0, start |-> 0, children |-> <<>>,
             polled |-> <<>>, found |-> FALSE, error |-> <<>>]
      [] OTHER -> NoLocals

GuideEnd(passed) ==
    /\ outcome' = Append(outcome, [test |-> Example, passed |-> passed])
    /\ pc' = [test |-> pc.test + 1, at |-> "hooks"]
    /\ mem' = NoLocals

InitGuide ==
    /\ PairIdle
    /\ ConfigIdle
    /\ LoopIdle
    /\ tz \in TimeZones
    /\ pc = [test |-> 1, at |-> "hooks"]
    /\ mem = NoLocals
    /\ mockRandom = RealRandom
    /\ prng = [x |-> 0, stride |-> 0]
    /\ fakeTimers = RealTimers
    /\ outcome = <<>>

\* an example starts with its locals declared, at any time of the day, no timer pending
Guide_Hooks ==
    /\ pc.at = "hooks"
    /\ pc.test \in DOMAIN GuideOrder
    /\ mem' = GuideLocals(Example)
    /\ \E w \in WallClockSamples : loop' = [NoTimers EXCEPT !.now = w]
    /\ pc' = [pc EXCEPT !.at = "start"]
    /\ UNCHANGED <<tz, mockRandom, prng, fakeTimers, outcome>>
    /\ UNCHANGED <<pairVars, configVars>>

debounceDelay == 180

\* debouncedHandler(): clearTimeout(timeout); timeout = setTimeout(() => { eventCount++ }, 180)
\* (clearTimeout of an id no pending timer has does nothing)
debouncedHandler(lp, timeout) ==
    SetTimeout(ClearTimeout(lp, timeout), "guide_debounced", RealDelay(debounceDelay))

\* the test function up to its await: debouncedHandler(); the two delayed triggers;
\* new Promise(resolve => setTimeout(resolve, 300))
Debounced_Start ==
    /\ InGuide("debounced", "start")
    /\ loop' = SetTimeout(
                 SetTimeout(
                   SetTimeout(debouncedHandler(loop, mem.timeout),
                              "guide_trigger", RealDelay(50)),
                   "guide_trigger", RealDelay(100)),
                 "guide_resolve", RealDelay(300))
    /\ mem' = [mem EXCEPT !.timeout = loop.nextId]
    /\ pc' = [pc EXCEPT !.at = "await"]
    /\ UNCHANGED <<tz, mockRandom, prng, fakeTimers, outcome>>
    /\ UNCHANGED <<pairVars, configVars>>

\* the event loop fires the next timer: a delayed trigger calls debouncedHandler, the
\* debounced action counts the event, or the awaited promise is resolved and the
\* test function resumes
Debounced_Fire ==
    /\ InGuide("debounced", "await")
    /\ loop.timers # {}
    /\ LET cb == NextTimer(loop).cb
           fired == LoopFired(loop)
       IN  CASE cb = "guide_trigger" ->
                  /\ loop' = debouncedHandler(fired, mem.timeout)
                  /\ mem' = [mem EXCEPT !.timeout = fired.nextId]
                  /\ UNCHANGED pc
             [] cb = "guide_debounced" ->
                  /\ loop' = fired
                  /\ mem' = [mem EXCEPT !.eventCount = @ + 1]
                  /\ UNCHANGED pc
             [] OTHER ->
                  /\ loop' = fired
                  /\ pc' = [pc EXCEPT !.at = "expect"]
                  /\ UNCHANGED mem
    /\ UNCHANGED <<tz, mockRandom, prng, fakeTimers, outcome>>
    /\ UNCHANGED <<pairVars, configVars>>

\* expect(eventCount).toBe(1)
Debounced_Expect ==
    /\ InGuide("debounced", "expect")
    /\ GuideEnd(mem.eventCount = 1)
    /\ UNCHANGED <<tz, mockRandom, prng, fakeTimers>>
    /\ UNCHANGED <<pairVars, configVars, loopVars>>

(***************************************************************************)
(* waitForElement(selector, timeout = 5000), called with any of a few      *)
(* timeouts or with none (as the guide's test calls it), while the page    *)
(* inserts the element at some time, or never, and may remove it again.    *)
(***************************************************************************)
defaultTimeout == 5000

pollInterval == 100

TimeoutSamples == {0, 1, 100, 250, 300}

TimeoutArgs ==
    {[given |-> FALSE, value |-> 0]} \cup {[given |-> TRUE, value |-> t] : t \in TimeoutSamples}

AppearSamples == {0, 50, 100, 200, 250, 300}

RemoveSamples == {30, 100}

\* what the page does: whether and when the element is inserted and removed
PageScripts ==
    {[appears |-> FALSE, at |-> 0, removed |-> FALSE, after |-> 0]}
        \cup {[appears |-> TRUE, at |-> a, removed |-> FALSE, after |-> 0] : a \in AppearSamples}
        \cup {[appears |-> TRUE, at |-> a, removed |-> TRUE, after |-> d] :
                 a \in AppearSamples, d \in RemoveSamples}

targetElement == [className |-> Tail(targetSelector)]

\* `Element ${selector} not found`
notFoundMessage(selector) ==
    <<"E", "l", "e", "m", "e", "n", "t", " ">> \o selector
        \o <<" ", "n", "o", "t", " ", "f", "o", "u", "n", "d">>

\* the timeout parameter and its default
timeoutOf(arg) == IF arg.given THEN arg.value ELSE defaultTimeout

withinTimeoutInclusive(now, start, timeout) == now - start <= timeout

\* the loop condition: Date.now() - start < timeout
withinTimeout(now, start, timeout) == now - start < timeout

\* the page's script is set up, then the test function calls waitForElement:
\* const start = Date.now()
WaitFor_Start ==
    /\ InGuide("waitFor", "start")
    /\ \E arg \in TimeoutArgs, page \in PageScripts :
          /\ mem' = [mem EXCEPT !.timeout = timeoutOf(arg),
                                !.start = loop.now,
                                !.children = IF page.appears /\ page.at = 0
                                             THEN <<targetElement>> ELSE <<>>]
          /\ loop' =
               LET inserted == IF page.appears /\ page.at > 0
                               THEN SetTimeout(loop, "guide_appear", RealDelay(page.at))
                               ELSE loop
               IN  IF page.removed
                   THEN SetTimeout(inserted, "guide_remove", RealDelay(page.at + page.after))
                   ELSE inserted
    /\ pc' = [pc EXCEPT !.at = "poll"]
    /\ UNCHANGED <<tz, mockRandom, prng, fakeTimers, outcome>>
    /\ UNCHANGED <<pairVars, configVars>>

\* the head of the loop and its body up to the await: while the timeout has not
\* elapsed, query the element and return it, or wait 100 ms; otherwise throw
WaitFor_Poll ==
    /\ InGuide("waitFor", "poll")
    /\ IF withinTimeout(loop.now, mem.start, mem.timeout)
       THEN LET element == querySelector(mem.children, Tail(mem.selector))
                entry == [elapsed |-> loop.now - mem.start, present |-> element # <<>>]
            IN  IF element # <<>>
                THEN /\ mem' = [mem EXCEPT !.polled = Append(@, entry), !.found = TRUE]
                     /\ pc' = [pc EXCEPT !.at = "returned"]
                     /\ UNCHANGED loop
                ELSE /\ mem' = [mem EXCEPT !.polled = Append(@, entry)]
                     /\ loop' = SetTimeout(loop, "guide_poll", RealDelay(pollInterval))
                     /\ pc' = [pc EXCEPT !.at = "await"]
       ELSE /\ mem' = [mem EXCEPT !.error = notFoundMessage(mem.selector)]
            /\ pc' = [pc EXCEPT !.at = "thrown"]
            /\ UNCHANGED loop
    /\ UNCHANGED <<tz, mockRandom, prng, fakeTimers, outcome>>
    /\ UNCHANGED <<pairVars, configVars>>

\* the event loop fires the next timer: the page inserts or removes the element, or
\* the awaited promise is resolved and waitForElement resumes at the head of its loop
WaitFor_Fire ==
    /\ InGuide("waitFor", "await")
    /\ loop.timers # {}
    /\ LET cb == NextTimer(loop).cb
       IN  CASE cb = "guide_appear" ->
                  /\ mem' = [mem EXCEPT !.children = appendChild(@, targetElement)]
                  /\ UNCHANGED pc
             [] cb = "guide_remove" ->
                  /\ mem' = [mem EXCEPT !.children = <<>>]
                  /\ UNCHANGED pc
             [] OTHER ->
                  /\ pc' = [pc EXCEPT !.at = "poll"]
                  /\ UNCHANGED mem
    /\ loop' = LoopFired(loop)
    /\ UNCHANGED <<tz, mockRandom, prng, fakeTimers, outcome>>
    /\ UNCHANGED <<pairVars, configVars>>

\* the awaited call has returned, expect(element).toBeDefined(), or it has thrown
\* and the test function is rejected
WaitFor_Expect ==
    /\ InGuide("waitFor", "returned") \/ InGuide("waitFor", "thrown")
    /\ GuideEnd(pc.at = "returned" /\ mem.found)
    /\ UNCHANGED <<tz, mockRandom, prng, fakeTimers>>
    /\ UNCHANGED <<pairVars, configVars, loopVars>>

NextGuide ==
    \/ Guide_Hooks
    \/ Debounced_Start
    \/ Debounced_Fire
    \/ Debounced_Expect
    \/ WaitFor_Start
    \/ WaitFor_Poll
    \/ WaitFor_Fire
    \/ WaitFor_Expect

SpecGuide == InitGuide /\ [][NextGuide]_vars









NextSuite ==
    \/ SuiteHooks
    \/ Toggle_UseFakeTimers
    \/ Toggle_Spy
    \/ Toggle_Click
    \/ Toggle_Advance
    \/ Toggle_Fire
    \/ Toggle_Advanced
    \/ Toggle_Expect
    \/ Network_AfterEach
    \/ Concurrent_UseFakeTimers
    \/ Concurrent_Call
    \/ Concurrent_RunAllTimers
    \/ Concurrent_Fire
    \/ Concurrent_Await
    \/ Concurrent_Then
    \/ Concurrent_Settled
    \/ Concurrent_Expect
    \/ Retry_Attempt
    \/ Retry_Continue
    \/ Retry_Expect
    \/ Cache_UseFakeTimers
    \/ Cache_SetSystemTime
    \/ Cache_Call
    \/ Cache_RunPending
    \/ Cache_Fire
    \/ Cache_Ran
    \/ Cache_Store
    \/ Cache_Result
    \/ Cache_Expect
    \/ WebSocket_UseFakeTimers
    \/ WebSocket_Connect
    \/ WebSocket_Advance
    \/ WebSocket_Fire
    \/ WebSocket_OnMessage
    \/ WebSocket_Advanced
    \/ WebSocket_Expect
    \/ Upload_UseFakeTimers
    \/ Upload_Call
    \/ Upload_Expect
    \/ Upload_Fire
    \/ Upload_Advanced
    \/ Dynamic_Add
    \/ Dynamic_Fire
    \/ Dynamic_Resume
    \/ Dynamic_Expect
    \/ Clickable_Create
    \/ Clickable_Fire
    \/ Clickable_Click
    \/ Clickable_Expect
    \/ Mutations_Schedule
    \/ Mutations_Fire
    \/ Mutations_Resume
    \/ Mutations_Expect
    \/ Rapid_Click
    \/ Rapid_ScheduleCheck
    \/ Rapid_Fire
    \/ Rapid_Check
    \/ Memory_Allocate
    \/ Memory_ScheduleCheck
    \/ Memory_Fire
    \/ Memory_Check
    \/ Counter_Click
    \/ Counter_ScheduleCheck
    \/ Counter_Fire
    \/ Counter_Check
    \/ Double_Simulate
    \/ Double_ScheduleCheck
    \/ Double_Fire
    \/ Double_Check
    \/ Stale_Fire
    \/ Input_Start
    \/ Input_Fire
    \/ Input_Check
    \/ Hover_Start
    \/ Hover_Fire
    \/ Hover_Check
    \/ Drag_Start
    \/ Drag_Fire
    \/ Drag_Check
    \/ History_Start
    \/ History_Fire
    \/ History_Check
    \/ Form_Start
    \/ Form_Fire
    \/ Form_Check
    \/ Transitions_Start
    \/ Transitions_Fire
    \/ Transitions_Check
    \/ Heavy_Start
    \/ Heavy_Fire
    \/ Heavy_Check
    \/ Data_Start
    \/ Data_Fire
    \/ Data_Check
    \/ Cleanup_Start
    \/ Cleanup_Fire
    \/ Cleanup_Check

SpecSuite == InitSuite /\ [][NextSuite]_vars

\* C11: with the 140 ms debounce, the three clicks made with no time advancing leave
\* one pending timer, the last click's (each click cancels the timer of the click
\* before it); after advancing 250 ms the toggle has run exactly once: toggleCount is
\* 1, isOn is true and the status text is 'On'.
C11_DebounceRunsOnce ==
    /\ (In("toggle", "click") /\ mem.i > 0) =>
          fakeTimers.timers =
              {[id |-> mem.timeout, callAt |-> fakeTimers.now + 140, cb |-> "toggle"]}
    /\ In("toggle", "expect") =>
          mem.toggleCount = 1 /\ mem.isOn = TRUE /\ mem.status = "On"

C11_Witness ==
    /\ In("toggle", "expect")
    /\ mem.i = 3
    /\ mem.toggleCount = 1
    /\ mem.timeout = 3
    /\ fakeTimers.timers = {}

\* C12: the three API calls (delays 120, 80 and 160 ms) are started together; once
\* all timers have run and the reactions have been executed, the results list has
\* exactly 3 entries whose ids are exactly 1, 2 and 3, no call having completed
\* twice, although the calls complete in another order than they were started; the
\* test passes.
C12_EveryCallCompletesOnce ==
    /\ (Running = "concurrent" /\ pc.at \notin {"hooks", "afterEach"}) =>
          \A j, k \in DOMAIN mem.results : mem.results[j].id = mem.results[k].id => j = k
    /\ ((In("concurrent", "await") /\ mem.jobs = <<>>) \/ In("concurrent", "expect")) =>
          /\ Len(mem.results) = 3
          /\ {mem.results[k].id : k \in DOMAIN mem.results} = {1, 2, 3}
    /\ \A k \in DOMAIN outcome : outcome[k].test = "concurrent" => outcome[k].passed

C12_Witness ==
    /\ In("concurrent", "expect")
    /\ [k \in DOMAIN mem.results |-> mem.results[k].id] = <<2, 1, 3>>
    /\ fakeTimers.now = loop.now + 160

\* C13: with maxRetries = 3 and the outcomes fail, fail, succeed, the retry loop
\* returns the result of the third attempt, which succeeded; the API has then been
\* called exactly 3 times; no attempt is ever made after a successful one; the test
\* passes.
C13_RetryUntilSuccess ==
    /\ (Running = "retry" /\ pc.at # "hooks") =>
          /\ mem.attemptCount = Len(mem.log)
          /\ \A k \in DOMAIN mem.log : mem.log[k] => k = Len(mem.log)
    /\ (In("retry", "expect") \/ In("retry", "afterEach")) =>
          /\ mem.result = [success |-> TRUE, attempts |-> 3]
          /\ mem.attemptCount = 3
          /\ mem.log = <<FALSE, FALSE, TRUE>>
    /\ \A k \in DOMAIN outcome : outcome[k].test = "retry" => outcome[k].passed

C13_Witness ==
    /\ In("retry", "afterEach")
    /\ mem.passed
    /\ mem.attemptCount = 3
    /\ mem.i = 2
    /\ mem.result.attempts = 3

(***************************************************************************)
(* mockCachedApiCall called up to MaxCalls times, on any of two keys, the  *)
(* clock advanced by any of a few spans between the calls (SpecCache).     *)
(* The calls of the test (times 0, 50, 300 on test-key) are one of the     *)
(* runs.                                                                   *)
(***************************************************************************)
MaxCalls == 3

CacheKeys == {"test-key", "other-key"}

AdvanceSamples == {0, 100, 149, 150, 250}

InitCache ==
    /\ PairIdle
    /\ ConfigIdle
    /\ LoopIdle
    /\ tz \in TimeZones
    /\ pc = [test |-> SuiteIndex("cache"), at |-> "hooks"]
    /\ mem = NoLocals
    /\ mockRandom = RealRandom
    /\ prng = [x |-> 0, stride |-> 0]
    /\ fakeTimers = RealTimers
    /\ outcome = <<>>

\* after a call has returned: jest.advanceTimersByTime(d), no timer pending, and
\* the next call, on any key
Cache_AnyNext ==
    /\ In("cache", "expect")
    /\ Len(mem.results) < MaxCalls
    /\ fakeTimers.timers = {}
    /\ \E d \in AdvanceSamples, key \in CacheKeys :
          /\ fakeTimers' = [fakeTimers EXCEPT !.now = @ + d]
          /\ mem' = [mem EXCEPT !.key = key]
    /\ pc' = [pc EXCEPT !.at = "call"]
    /\ UNCHANGED <<tz, mockRandom, prng, outcome>>
    /\ UNCHANGED <<pairVars, configVars, loopVars>>

NextCache ==
    \/ SuiteHooks /\ Running = "cache"
    \/ Cache_UseFakeTimers
    \/ Cache_SetSystemTime
    \/ Cache_Call
    \/ Cache_RunPending
    \/ Cache_Fire
    \/ Cache_Ran
    \/ Cache_Store
    \/ Cache_Result
    \/ Cache_AnyNext

SpecCache == InitCache /\ [][NextCache]_vars

\* C14: a call returns fromCache = true exactly when the cache holds an entry for
\* the key whose timestamp is less than 200 ms before the time of the call;
\* otherwise it sets a 50 ms timer and, once returned, 50 ms later, the entry for
\* the key is stamped with the time the call started at and fromCache is false.
\* Calls at the times 0, 50 and 300 on one key give miss, hit, miss.
C14_CacheHitWithin200 ==
    /\ In("cache", "runPending") =>
          LET hit == \E c \in mem.cache :
                        c.key = mem.key /\ fakeTimers.now - c.timestamp < 200
          IN  /\ hit => mem.p.state = "fulfilled" /\ mem.p.fromCache /\ fakeTimers.timers = {}
              /\ ~hit => /\ mem.p.state = "pending"
                         /\ \E t \in fakeTimers.timers :
                               /\ fakeTimers.timers = {t}
                               /\ t.callAt = fakeTimers.now + 50
    /\ In("cache", "expect") =>
          LET r == mem.results[Len(mem.results)]
          IN  /\ r.fromCache = mem.p.fromCache
              /\ ~r.fromCache =>
                    /\ fakeTimers.now = r.at + 50
                    /\ \E c \in mem.cache :
                          c.key = r.key /\ c.timestamp = r.at /\ c.data.timestamp = r.at
              /\ r.fromCache => fakeTimers.now = r.at
    /\ (In("cache", "expect") /\ Len(mem.results) = 3) =>
          ((/\ \A k \in 1..3 : mem.results[k].key = mem.results[1].key
            /\ [k \in 1..3 |-> mem.results[k].at - Epoch] = <<0, 50, 300>>)
           => [k \in 1..3 |-> mem.results[k].fromCache] = <<FALSE, TRUE, FALSE>>)

C14_Witness ==
    /\ In("cache", "expect")
    /\ Len(mem.results) = 3
    /\ \A k \in 1..3 : mem.results[k].key = "test-key"
    /\ [k \in 1..3 |-> mem.results[k].at - Epoch] = <<0, 50, 300>>
    /\ [k \in 1..3 |-> mem.results[k].fromCache] = <<FALSE, TRUE, FALSE>>
    /\ fakeTimers.now = Epoch + 350

\* C15: after connect() and advancing the fake clock by 50 ms and then by 20 ms,
\* the connection state is 'connected' and messagesReceived is exactly
\* ['Echo: Hello WebSocket']; when onmessage runs, the state is already 'connected'
\* and exactly one message has been received; the test passes.
C15_ConnectedThenEcho ==
    /\ In("websocket", "onmessage") =>
          /\ mem.connectionState = "connected"
          /\ mem.messagesReceived = <<"Echo: Hello WebSocket">>
    /\ (In("websocket", "expect") \/ In("websocket", "afterEach")) =>
          /\ mem.connectionState = "connected"
          /\ mem.messagesReceived = <<"Echo: Hello WebSocket">>
          /\ fakeTimers.timers = {}
    /\ \A k \in DOMAIN outcome : outcome[k].test = "websocket" => outcome[k].passed

C15_Witness ==
    /\ In("websocket", "onmessage")
    /\ mem.step = 2
    /\ fakeTimers.now = loop.now + 70
    /\ Len(mem.messagesReceived) = 1

\* C16: in the chunked upload (total 1000, chunk 200, 20 ms between chunks) the
\* progress is 20 right after the call and 40, 60, 80, 100 after each further
\* advance of 20 ms; uploadComplete is true exactly when the progress is 100, which
\* is after the fifth chunk; once it is true no chunk is scheduled; the test passes.
C16_ProgressByTwenty ==
    /\ In("upload", "expect") =>
          /\ mem.uploadProgress = 20 * (mem.step + 1)
          /\ mem.uploaded = 200 * (mem.step + 1)
          /\ fakeTimers.now = loop.now + 20 * mem.step
    /\ (Running = "upload" /\ pc.at # "hooks") =>
          /\ mem.uploadComplete <=> mem.uploadProgress = 100
          /\ mem.uploadComplete <=> mem.uploaded = 5 * 200
          /\ mem.uploadComplete => fakeTimers.timers = {}
          /\ (~mem.uploadComplete /\ pc.at \in {"expect", "ticking"}) =>
                Cardinality(fakeTimers.timers) <= 1
    /\ \A k \in DOMAIN outcome : outcome[k].test = "upload" => outcome[k].passed

C16_Witness ==
    /\ In("upload", "expect")
    /\ mem.step = 4
    /\ mem.uploadProgress = 100
    /\ mem.uploadComplete
    /\ fakeTimers.now = loop.now + 80

\* C18: the tests that await the promise of their delayed operation find its effect
\* in place when they assert, whatever the delay: the dynamic element is in the
\* document (after 50..199 ms), and the click made after the await, the listener
\* attached (after 50..149 ms), brings clickCount to exactly 1; both tests pass.
C18_AwaitedEffectInPlace ==
    /\ In("dynamic", "await") =>
          /\ mem.resolved <=> loop.timers = {}
          /\ \A t \in loop.timers : t.callAt - loop.now \in 50..199
    /\ In("dynamic", "expect") =>
          /\ mem.children = <<[tag |-> "div", className |-> "dynamic-item",
                               textContent |-> "Dynamic Item"]>>
          /\ loop.timers = {}
    /\ In("clickable", "await") =>
          /\ mem.resolved <=> loop.timers = {}
          /\ mem.resolved <=> mem.listeners = 1
          /\ \A t \in loop.timers : t.callAt - loop.now \in 50..149
    /\ In("clickable", "expect") =>
          /\ mem.clickCount = 1
          /\ mem.listeners = 1
          /\ querySelector(mem.children, "clickable-item") # <<>>
    /\ \A k \in DOMAIN outcome :
          outcome[k].test \in {"dynamic", "clickable"} => outcome[k].passed

C18_Witness ==
    /\ In("clickable", "expect")
    /\ mem.clickCount = 1
    /\ outcome = <<[test |-> "dynamic", passed |-> TRUE]>>
    /\ loop.now \in {t + 199 + 149 : t \in WallClockSamples}

\* C17: in the multiple-DOM-mutations test, whatever the three delays, the three
\* awaited steps take effect in the order added-first, added-second, removed-first
\* (a step's timer is set only after the step before it has taken effect), and when
\* the sequence has completed the container has exactly one child, the second
\* element; the test passes.
C17_MutationsInOrder ==
    /\ (Running = "mutations" /\ pc.at # "hooks") =>
          /\ mem.mutations =
                SubSeq(<<"added-first", "added-second", "removed-first">>, 1,
                       mem.step + (IF mem.resolved THEN 1 ELSE 0))
          /\ Cardinality(loop.timers) <= 1
          /\ \A t \in loop.timers : t.cb = MutationSteps[mem.step + 1].cb
    /\ In("mutations", "expect") =>
          /\ mem.mutations = <<"added-first", "added-second", "removed-first">>
          /\ mem.children = <<[tag |-> "div", className |-> "", textContent |-> "Second"]>>
    /\ \A k \in DOMAIN outcome : outcome[k].test = "mutations" => outcome[k].passed

C17_Witness ==
    /\ In("mutations", "expect")
    /\ Len(mem.children) = 1
    /\ mem.children[1].textContent = "Second"
    /\ \E k \in DOMAIN outcome : outcome[k].test = "clickable"
    /\ \E t \in WallClockSamples, d \in 50..199, c \in 50..149 :
          loop.now = t + d + c + 19 + 49 + 79

C21_ValidatedOnceAtCheck ==
    In("input", "check") => mem.validationCount = 1 /\ mem.display = "Valid"

C23_HoveredAtCheck == In("hover", "check") => mem.status = "Hovered"

(***************************************************************************)
(* C24: in the drag-and-drop test, at the check at 250 ms dragStarted,     *)
(* dropCompleted and dragEnded are all true and the status text is         *)
(* 'Dropped'.  The code does not do this: the drop is handled at 260 ms at *)
(* the earliest and dragend is dispatched at 300 ms.                       *)
(***************************************************************************)
C24_DroppedAtCheck ==
    In("drag", "check") =>
        /\ mem.dragStarted
        /\ mem.dropCompleted
        /\ mem.dragEnded
        /\ mem.status = "Dropped"

(***************************************************************************)
(* C25: in the state-history test, at the check at 180 ms the history has  *)
(* exactly 3 entries, currentState is 0 and the history text contains '0'. *)
(* The code does not do this for every delay: the reset clicked at 150 ms  *)
(* is applied at 190 ms at the earliest, so the check sees 0 only when an  *)
(* earlier update happened to leave it.                                    *)
(***************************************************************************)
C25_ThreeEntriesAndReset ==
    In("history", "check") =>
        /\ Len(mem.stateHistory) = 3
        /\ mem.currentState = 0
        /\ Contains(mem.historyText, <<"0">>)

(***************************************************************************)
(* C26: in the form-validation test, at the check at 120 ms validation has *)
(* run exactly once with status 'Valid', and formData holds the name       *)
(* 'John Doe' and the e-mail address 'john@example.com'.  The code does    *)
(* not do this: the validation started at 100 ms completes at 200 ms at    *)
(* the earliest.                                                           *)
(***************************************************************************)
C26_ValidAtCheck ==
    In("form", "check") =>
        /\ mem.validationCount = 1
        /\ mem.status = "Valid"
        /\ mem.formData.name = JohnDoe
        /\ mem.formData.email = JohnAtExample

(***************************************************************************)
(* C27: in the complex-transitions test, at the check at 180 ms            *)
(* state.value is 0, state.transitions is 5, state.history has 4 entries   *)
(* and the display shows '0'.  The code does not do this: the click at    *)
(* 150 ms is applied at 200 ms at the earliest and the fifth click comes   *)
(* at 200 ms, so at most 3 transitions have been applied.                  *)
(***************************************************************************)
C27_FiveTransitionsAtCheck ==
    In("transitions", "check") =>
        /\ mem.state.value = 0
        /\ mem.state.transitions = 5
        /\ Len(mem.state.history) = 4
        /\ mem.displayText = <<"0">>

(***************************************************************************)
(* C28: in the heavy-content test, at the check at 800 ms loadingStarted,  *)
(* loadingCompleted and contentLoaded are all true, the loading indicator  *)
(* is hidden and the content area contains 'Heavy content'.  The code does *)
(* not do this: the load completes at 1000 ms at the earliest.             *)
(***************************************************************************)
C28_LoadedAtCheck ==
    In("heavy", "check") =>
        /\ mem.loadingStarted
        /\ mem.loadingCompleted
        /\ mem.contentLoaded
        /\ mem.display = "none"
        /\ Contains(mem.innerHTML, HeavyContent)

(***************************************************************************)
(* C29: in the large-data test, at the check at 600 ms processing has      *)
(* completed, more than 5 progress updates have happened and the progress  *)
(* bar width is '100%'.  The code does not do this for every delay: eight  *)
(* batches or more are needed, each taking 50 to 149 ms one after another. *)
(***************************************************************************)
C29_ProcessedAtCheck ==
    In("data", "check") =>
        /\ mem.processingCompleted
        /\ mem.progressUpdates > 5
        /\ mem.width = <<"1", "0", "0", "%">>

(***************************************************************************)
(* C30: in the resource-cleanup test, at the check at 400 ms               *)
(* resourcesCreated is 3, resourcesCleaned is 3, cleanupCompleted is true  *)
(* and no '.resource' element remains.  The code does not do this for      *)
(* every delay: the three creations and the cleanup, one after another,    *)
(* take from 250 ms up to 696 ms.                                          *)
(***************************************************************************)
C30_CleanedAtCheck ==
    In("cleanup", "check") =>
        /\ mem.resourcesCreated = 3
        /\ mem.resourcesCleaned = 3
        /\ mem.cleanupCompleted
        /\ Len(querySelector(mem.children, "resource")) = 0

C32_PollsUntilTimeout ==
    (Example = "waitFor" /\ pc.at \in {"poll", "await", "returned", "thrown"}) =>
        LET elapsed == loop.now - mem.start
            polls == {t \in loop.timers : t.cb = "guide_poll"}
            n == Len(mem.polled)
        IN  /\ \A k \in 1..n :
                  /\ mem.polled[k].elapsed = (k - 1) * pollInterval
                  /\ mem.polled[k].elapsed < mem.timeout
                  /\ mem.polled[k].present <=> (k = n /\ pc.at = "returned")
            /\ pc.at = "returned" =>
                  /\ n >= 1
                  /\ mem.found
                  /\ querySelector(mem.children, Tail(mem.selector)) # <<>>
                  /\ polls = {}
            /\ pc.at = "thrown" =>
                  /\ ~mem.found
                  /\ elapsed >= mem.timeout
                  /\ elapsed < mem.timeout + pollInterval
                  /\ mem.error = notFoundMessage(targetSelector)
                  /\ polls = {}
            /\ pc.at = "await" =>
                  \E t \in polls : polls = {t} /\ t.callAt < mem.start + mem.timeout + pollInterval
            /\ pc.at = "poll" => polls = {}

\* the element is inserted at 250 ms and removed at 280 ms: no poll sees it, and with
\* a timeout of 300 ms the call throws at 300 ms after three polls
C32_Witness ==
    /\ InGuide("waitFor", "thrown")
    /\ mem.timeout = 300
    /\ loop.now - mem.start = 300
    /\ Len(mem.polled) = 3
    /\ mem.children = <<>>
    /\ \A t \in loop.timers : t.cb # "guide_appear" /\ t.cb # "guide_remove"
    /\ Len(mem.error) = 25

\* C33: in the counter-increment test counter + pendingIncrements equals the number
\* of clicks issued so far in every state: a click adds one pending increment, a
\* timer callback moves one from pending to counter; pendingIncrements is never
\* negative, counter never exceeds the number of clicks, and the increments still
\* pending are exactly the increment timers not yet fired.
C33_CounterPlusPending ==
    (Running = "counter" /\ pc.at \in {"start", "loop", "check"}) =>
        /\ mem.counter + mem.pendingIncrements = mem.i
        /\ mem.pendingIncrements >= 0
        /\ mem.counter >= 0
        /\ mem.counter <= mem.i
        /\ mem.i <= rapidCount
        /\ mem.pendingIncrements = Cardinality({t \in loop.timers : t.cb = "increment"})
        /\ mem.displayText = IF mem.counter = 0 THEN <<"0">> ELSE toString(mem.counter)

\* two increments applied, three still pending, after the five clicks
C33_Witness ==
    /\ In("counter", "loop")
    /\ mem.i = 5
    /\ mem.counter = 2
    /\ mem.pendingIncrements = 3

C35_StrictThresholds ==
    (Test = "weighted" /\ pc.at # "hooks" /\ "results" \in DOMAIN mem) =>
        /\ weights.legendary + weights.rare = Dec(30, 2)
        /\ mockWeightedSelect(Dec(5, 2)) = "rare"
        /\ mockWeightedSelect(Dec(30, 2)) = "common"
        /\ \A r \in 0..(RandDen - 1) :
              /\ mockWeightedSelect(r) \in {"legendary", "rare", "common"}
              /\ mockWeightedSelect(r) = "legendary" <=> r < Dec(5, 2)
              /\ mockWeightedSelect(r) = "rare" <=> (Dec(5, 2) <= r /\ r < Dec(30, 2))
              /\ mockWeightedSelect(r) = "common" <=> Dec(30, 2) <= r
        /\ mem.results =
              [common |-> Cardinality({k \in 1..mem.i : Dec(30, 2) <= WeightedScript[k]}),
               rare |-> Cardinality({k \in 1..mem.i : Dec(5, 2) <= WeightedScript[k]
                                                       /\ WeightedScript[k] < Dec(30, 2)}),
               legendary |-> Cardinality({k \in 1..mem.i : WeightedScript[k] < Dec(5, 2)})]

\* the twelfth value drawn is 0.05, the fourth was 0.3: neither is counted in the
\* class below its threshold
C35_Witness ==
    /\ Test = "weighted"
    /\ pc.at # "hooks"
    /\ "results" \in DOMAIN mem
    /\ mem.i = 12
    /\ mockRandom.calls = 12
    /\ WeightedScript[12] = Dec(5, 2)
    /\ WeightedScript[4] = Dec(30, 2)
    /\ mem.results = [common |-> 7, rare |-> 4, legendary |-> 1]

====
